---- MODULE Spec2Model ----
(***************************************************************************)
(* A model of the N-dimensional image iteration core of ITK and of the     *)
(* filters of this repository that are built on it.                        *)
(*                                                                         *)
(* The module holds several specifications, one per subsystem; each one    *)
(* drives the variables of its own subsystem and leaves the others idle.   *)
(*   SpecFaces    the boundary-face decomposition (ImageBoundaryFaces-     *)
(*                Calculator), as a function of image, region and radius   *)
(***************************************************************************)
EXTENDS Integers, Sequences, FiniteSets, TLC

(***************************************************************************)
(* Bounds of the model.                                                    *)
(***************************************************************************)
\* largest extent of a buffered region along one axis (decomposition)
MaxSize == 5
\* largest neighborhood radius along one axis (decomposition)
MaxRadius == 2
\* largest extent of the input image of the gradient filter along one axis
GradMaxSize == 4
\* largest extent of the images of the copy loop along one axis
IterMaxSize == 3
\* largest extent of the image along one axis (addressing)
AddrMaxSize == 3
\* largest extent of a region along one axis (requested regions)
ReqMaxSize == 2
\* largest kernel radius along one axis (requested regions)
ReqMaxRadius == 1
\* how far from index 0 a requested region may start (requested regions)
ReqReach == 3
\* largest extent of the image of the morphology filter along one axis
MorphMaxSize == 2
\* largest radius of the structuring element of the morphology filter
MorphMaxRadius == 1
\* largest key of the data-object map walked by DataObjectConstIterator
DoiMaxKey == 4
\* how many traversals of the map a client makes
DoiMaxPasses == 2
\* largest pixel value handed to the ternary functor
TernMaxValue == 5
\* number of values of the functor's output type (an unsigned type)
TernOutputValues == 4
\* a filter's progress is one of 0/ProgSteps, 1/ProgSteps, .., 1
ProgSteps == 2
\* largest weight a filter is registered with
ProgMaxWeight == 2
\* how many events the internal filters send
ProgMaxEvents == 4
\* how many pixels one thread hands to ComputeUpdate
LsmMaxPixels == 1
\* largest speed value (intensity difference) at a pixel
LsmMaxSpeed == 1
\* largest squared length of the update vector at a pixel
LsmMaxChange == 1

(***************************************************************************)
(* Coordinates, sizes and regions.  ImageDimension is 2 throughout: an     *)
(* index, a size, a radius and an offset are tuples <<axis 0, axis 1>>.    *)
(***************************************************************************)
Axes == 1 .. 2

Max(a, b) == IF a >= b THEN a ELSE b

Min(a, b) == IF a <= b THEN a ELSE b

\* A region: the index of its first pixel and its size (extent per axis).
MakeRegion(index, size) == [index |-> index, size |-> size]

\* One past the last coordinate of region r on axis a.
UpperBound(r, a) == r.index[a] + r.size[a]

\* Region::GetNumberOfPixels: the product of the size components.
GetNumberOfPixels(r) == r.size[1] * r.size[2]

\* The set of indices (pixels) of a region.
IndexSet(r) ==
    { <<x, y>> : x \in r.index[1] .. (UpperBound(r, 1) - 1),
                 y \in r.index[2] .. (UpperBound(r, 2) - 1) }

\* Region::IsInside(index)
IsInside(r, idx) ==
    \A a \in Axes : idx[a] >= r.index[a] /\ idx[a] < UpperBound(r, a)

\* Region::IsInside(region): `inner` lies within `outer` on every axis.
Fits(inner, outer) ==
    \A a \in Axes : /\ inner.index[a] >= outer.index[a]
                    /\ UpperBound(inner, a) <= UpperBound(outer, a)

\* All regions of at least one pixel that fit in region b.
SubRegions(b) ==
    { r \in { MakeRegion(<<x, y>>, <<sx, sy>>) :
                x \in b.index[1] .. (UpperBound(b, 1) - 1),
                y \in b.index[2] .. (UpperBound(b, 2) - 1),
                sx \in 1 .. b.size[1], sy \in 1 .. b.size[2] } :
        Fits(r, b) }

(***************************************************************************)
(* Region decomposition: NeighborhoodAlgorithm::ImageBoundaryFaces-        *)
(* Calculator.  b is the buffered region of the image, r the region to     *)
(* process (within b), radius the neighborhood radius.                     *)
(***************************************************************************)
\* How far r padded by radius reaches beyond the low side of b on axis a.
OverhangLow(b, r, radius, a) == Max(0, (b.index[a] + radius[a]) - r.index[a])

\* How far r padded by radius reaches beyond the high side of b on axis a.
OverhangHigh(b, r, radius, a) ==
    Max(0, (UpperBound(r, a) + radius[a]) - UpperBound(b, a))

\* Extent on axis a of the slab before the interior span; it cannot leave r.
LowExtent(b, r, radius, a) == Min(OverhangLow(b, r, radius, a), r.size[a])

\* HighExtent without the clipping that keeps the two slabs of an axis
\* apart when the region is narrower than the two overhangs together.
HighExtentUnclipped(b, r, radius, a) ==
    Min(OverhangHigh(b, r, radius, a), r.size[a])

\* Extent on axis a of the slab after the interior span; it cannot overlap
\* the slab before it.
HighExtent(b, r, radius, a) ==
    Min(OverhangHigh(b, r, radius, a), r.size[a] - LowExtent(b, r, radius, a))

\* NonBoundaryRegion shrunk on the low sides only.
NonBoundaryRegionLowOnly(b, r, radius) ==
    MakeRegion(
        [a \in Axes |-> r.index[a] + LowExtent(b, r, radius, a)],
        [a \in Axes |-> r.size[a] - LowExtent(b, r, radius, a)])

\* The interior (non-boundary) region: r shrunk on every side on which a
\* radius-sized neighborhood would leave the buffered region.  Its extent is
\* 0 on an axis on which nothing is left.
NonBoundaryRegion(b, r, radius) ==
    MakeRegion(
        [a \in Axes |-> r.index[a] + LowExtent(b, r, radius, a)],
        [a \in Axes |-> r.size[a] - LowExtent(b, r, radius, a)
                                  - HighExtent(b, r, radius, a)])

\* LowFace spanning the full extent of r on the axes already processed (the
\* corners are then covered twice).
LowFaceFullExtent(b, r, radius, i) ==
    MakeRegion(
        r.index,
        [j \in Axes |-> IF j = i THEN LowExtent(b, r, radius, i) ELSE r.size[j]])

\* The slab of axis i before the interior span: the interior span on the
\* axes already processed, the full extent of r on the axes after i.
LowFace(b, r, radius, i) ==
    LET nb == NonBoundaryRegion(b, r, radius)
    IN  MakeRegion(
            [j \in Axes |-> IF j < i THEN nb.index[j] ELSE r.index[j]],
            [j \in Axes |-> IF j < i THEN nb.size[j]
                            ELSE IF j = i THEN LowExtent(b, r, radius, i)
                            ELSE r.size[j]])

\* The slab of axis i after the interior span.
HighFace(b, r, radius, i) ==
    LET nb == NonBoundaryRegion(b, r, radius)
    IN  MakeRegion(
            [j \in Axes |-> IF j < i THEN nb.index[j]
                            ELSE IF j = i
                                 THEN UpperBound(r, i) - HighExtent(b, r, radius, i)
                            ELSE r.index[j]],
            [j \in Axes |-> IF j < i THEN nb.size[j]
                            ELSE IF j = i THEN HighExtent(b, r, radius, i)
                            ELSE r.size[j]])

\* The boundary faces of axis i, in the order low, high; a slab of extent 0
\* on axis i is not emitted.
AxisFaces(b, r, radius, i) ==
    (IF LowExtent(b, r, radius, i) > 0
        THEN << LowFace(b, r, radius, i) >> ELSE << >>)
    \o (IF HighExtent(b, r, radius, i) > 0
           THEN << HighFace(b, r, radius, i) >> ELSE << >>)

\* The face list: the interior region first, then the boundary faces axis
\* by axis.
ImageBoundaryFacesCalculator(b, r, radius) ==
    << NonBoundaryRegion(b, r, radius) >>
    \o AxisFaces(b, r, radius, 1) \o AxisFaces(b, r, radius, 2)

(***************************************************************************)
(* Buffer addressing.  An image is a record [region, buffer]: its buffered *)
(* region and the contiguous pixel array, a function of the linear offsets *)
(* 0 .. GetNumberOfPixels(region) - 1.                                     *)
(***************************************************************************)
\* The stride of axis a: stride[0] = 1, stride[i] = stride[i-1] * size[i-1].
RECURSIVE Stride(_, _)
Stride(size, a) == IF a = 1 THEN 1 ELSE Stride(size, a - 1) * size[a - 1]

\* The dot product of a coordinate with the strides, over the axes a and up.
RECURSIVE DotStrides(_, _, _)
DotStrides(size, coord, a) ==
    IF a \notin Axes THEN 0
    ELSE coord[a] * Stride(size, a) + DotStrides(size, coord, a + 1)

\* ImageBase::ComputeOffset: (index - origin of the buffered region) . strides
ComputeOffset(b, idx) ==
    DotStrides(b.size, [a \in Axes |-> idx[a] - b.index[a]], 1)

\* The pixel of image img at index idx, by a direct buffer read.
PixelAt(img, idx) == img.buffer[ComputeOffset(img.region, idx)]

\* DecodeFrom dividing by the size of the next axis instead of this one's.
RECURSIVE DecodeFromWrongDivisor(_, _, _, _)
DecodeFromWrongDivisor(position, size, begin, dim) ==
    IF dim \notin Axes THEN << >>
    ELSE LET residual == position % size[dim]
             divisor == IF dim + 1 \in Axes THEN size[dim + 1] ELSE size[dim]
         IN  << residual + begin[dim] >>
             \o DecodeFromWrongDivisor((position - residual) \div divisor,
                                       size, begin, dim + 1)

\* The loop that turns a position into an index, from axis dim on:
\*   residual = position % size[dim]; index[dim] = residual + begin[dim];
\*   position -= residual; position /= size[dim]
RECURSIVE DecodeFrom(_, _, _, _)
DecodeFrom(position, size, begin, dim) ==
    IF dim \notin Axes THEN << >>
    ELSE LET residual == position % size[dim]
         IN  << residual + begin[dim] >>
             \o DecodeFrom((position - residual) \div size[dim],
                           size, begin, dim + 1)

\* ImageBase::ComputeIndex: the offset decoded by successive modulo and
\* division, axis 0 first.
ComputeIndex(b, offset) == DecodeFrom(offset, b.size, b.index, 1)

(***************************************************************************)
(* Region iterator.  An iterator is a record [region, index, state] with   *)
(* state "Positioned" or "AtEnd"; the filters use a freshly constructed    *)
(* iterator without calling GoToBegin, so construction positions it.       *)
(***************************************************************************)
\* GoToBegin: at the origin of the region; a region without pixels has an
\* empty sequence of positions, so the iterator is at its end at once.
GoToBegin(it) ==
    [it EXCEPT !.index = it.region.index,
               !.state = IF GetNumberOfPixels(it.region) = 0
                            THEN "AtEnd" ELSE "Positioned"]

\* Iterator(image, region): bound to the region and at its first position.
MakeIterator(region) ==
    GoToBegin([region |-> region, index |-> region.index,
               state |-> "Positioned"])

IsAtEnd(it) == it.state = "AtEnd"

\* The position after index idx, incrementing axis a and carrying into the
\* next axis when axis a rolls over; past the last axis the iterator is at
\* its end.
RECURSIVE Advance(_, _, _)
Advance(it, idx, a) ==
    IF idx[a] + 1 < UpperBound(it.region, a)
        THEN [it EXCEPT !.index = [idx EXCEPT ![a] = @ + 1]]
    ELSE IF a + 1 \notin Axes
        THEN [it EXCEPT !.index = [idx EXCEPT ![a] = @ + 1],
                        !.state = "AtEnd"]
    ELSE Advance(it, [idx EXCEPT ![a] = it.region.index[a]], a + 1)

\* operator++ of a positioned iterator.
Increment(it) == Advance(it, it.index, 1)

(***************************************************************************)
(* Boundary conditions and the neighborhood iterator.                      *)
(***************************************************************************)
\* ConstantBoundaryCondition with constant c.
Constant(c) == [kind |-> "Constant", constant |-> c]

ZeroFluxNeumann == [kind |-> "ZeroFluxNeumann"]

\* The number of neighbors of a neighborhood of the given radius.
NeighborhoodSize(radius) == (2 * radius[1] + 1) * (2 * radius[2] + 1)

\* The coordinate, relative to the center, of neighbor k (k from 0, axis 0
\* fastest).
GetOffset(radius, k) ==
    LET width == [a \in Axes |-> 2 * radius[a] + 1]
    IN  [a \in Axes |-> ((k \div Stride(width, a)) % width[a]) - radius[a]]

\* The offset table: for each neighbor the linear-offset delta from the
\* center, with the strides of the buffer.
OffsetTable(b, radius) ==
    [k \in 0 .. (NeighborhoodSize(radius) - 1) |->
        DotStrides(b.size, GetOffset(radius, k), 1)]

\* The absolute image index of neighbor k of the neighborhood at center.
NeighborIndex(center, radius, k) ==
    [a \in Axes |-> center[a] + GetOffset(radius, k)[a]]

\* The index clamped on every axis to the nearest coordinate of region b.
ClampToRegion(b, idx) ==
    [a \in Axes |-> Max(b.index[a], Min(idx[a], UpperBound(b, a) - 1))]

\* The value a boundary condition synthesizes for the out-of-bounds index.
EvaluateBoundaryCondition(bc, img, idx) ==
    IF bc.kind = "Constant" THEN bc.constant
    ELSE PixelAt(img, ClampToRegion(img.region, idx))

\* GetPixel reporting every access as read from the buffer.
GetPixelAlwaysInside(img, radius, bc, center, k) ==
    IF IsInside(img.region, NeighborIndex(center, radius, k))
        THEN [value |-> PixelAt(img, NeighborIndex(center, radius, k)),
              isInside |-> TRUE]
        ELSE [value |-> EvaluateBoundaryCondition(
                            bc, img, NeighborIndex(center, radius, k)),
              isInside |-> TRUE]

\* GetPixel(k, isInside) of a neighborhood iterator over image img with the
\* given radius and boundary condition, positioned at center: the value and
\* whether it was read from the buffer.
GetPixel(img, radius, bc, center, k) ==
    IF IsInside(img.region, NeighborIndex(center, radius, k))
        THEN [value |-> img.buffer[ComputeOffset(img.region, center)
                                   + OffsetTable(img.region, radius)[k]],
              isInside |-> TRUE]
        ELSE [value |-> EvaluateBoundaryCondition(
                            bc, img, NeighborIndex(center, radius, k)),
              isInside |-> FALSE]

(***************************************************************************)
(* State.                                                                  *)
(***************************************************************************)
VARIABLES
    \* -- decomposition (SpecFaces)
    faceImage,      \* buffered region of the image handed to the calculator
    faceRegion,     \* regionToProcess
    faceRadius,     \* radius
    faceList,       \* the returned face list
    facePc,         \* "call" before the calculator ran, "done" after
    \* -- VectorGradientMagnitudeImageFilter (SpecGradient): one call of
    \*    DynamicThreadedGenerateData
    gradInput,      \* m_RealValuedInputImage: [region, buffer]
    gradOutput,     \* the output image: index -> value, -1 while not written
    gradRegion,     \* outputRegionForThread
    gradFaceList,   \* faceList
    gradFace,       \* position of the face loop in faceList
    gradBit,        \* bit: the neighborhood iterator, with its field bc
    gradIt,         \* it: the output region iterator
    gradPc,         \* program counter of the call
    gradWritten,    \* indices of the output written by the call
    \* -- watershed Relabeler::GenerateData, the copy loop (SpecIter)
    iterInput,      \* the input image: [region, buffer]
    iterOutput,     \* the output image over its requested region
    iterA,          \* it_a, over the input
    iterB,          \* it_b, over the output
    iterVisited,    \* history: the indices at which it_a was read, in order
    iterPc,         \* program counter of the copy loop
    \* -- addressing: UpdatePosition, then GetMeasurementVector (SpecOffset)
    addrImage,          \* the image: [region, buffer]
    addrRegion,         \* m_Region of the random iterator
    addrPermuted,       \* the permutation entry UpdatePosition decodes
    addrPositionIndex,  \* m_PositionIndex
    addrPosition,       \* m_Position, as an offset into the buffer
    addrUsePixelContainer, \* m_UsePixelContainer
    addrTempIndex,      \* m_TempIndex
    addrTempRange,      \* m_TempRangeVector: the pixel read
    addrPc,             \* program counter
    \* -- GenerateInputRequestedRegion of both filters (SpecRequest)
    reqFilter,          \* which filter: "morphology" or "gradient"
    reqInputPresent,    \* GetInput() is not null
    reqLargest,         \* the input's LargestPossibleRegion
    reqRequested,       \* the input's requested region
    reqEntry,           \* history: the input's requested region on entry
    reqRadius,          \* m_Kernel.GetRadius()
    reqRaised,          \* the exception thrown, or NoError
    reqPc,              \* program counter
    \* -- ObjectMorphologyImageFilter (SpecMorph): one call of
    \*    DynamicThreadedGenerateData
    morphInput,         \* the input image: [region, buffer]
    morphOutput,        \* the output image: index -> value
    morphKernelRadius,  \* m_Kernel.GetRadius()
    morphOverridden,    \* the user has replaced the boundary condition
    morphBoundaryCondition,    \* *m_BoundaryCondition
    morphUseBoundaryCondition, \* m_UseBoundaryCondition
    morphRegion,        \* outputRegionForThread
    morphFaceList,      \* faceList
    morphFace,          \* position of the face loop in faceList
    morphOSNIter,       \* oSNIter
    morphISNIter,       \* iSNIter
    morphPc,            \* program counter of the call
    morphWritten,       \* indices of the output written by the call
    \* -- DataObjectConstIterator walked by a client loop (SpecDataIter)
    doiKeys,            \* the keys of the data-object map
    doiIterator,        \* m_Iterator
    doiBegin,           \* m_Begin
    doiEnd,             \* m_End
    doiVisited,         \* history: names read since the last GoToBegin
    doiTraversals,      \* history: the completed traversals, in order
    doiPc,              \* position of the client
    \* -- Functor::TernaryOperator (SpecTernary)
    ternA,              \* argument 1
    ternB,              \* argument 2
    ternC,              \* argument 3
    ternResult,         \* the value returned
    ternPc,             \* "call" before the functor ran, "done" after
    \* -- ProgressAccumulator (SpecProgress); progress values are counted
    \*    in units of 1/ProgSteps, weighted progress in the same units
    progWeight,         \* m_FilterRecord[f].Weight
    progFilterProgress, \* m_FilterRecord[f].Filter->GetProgress()
    progRecordAccumulated, \* m_FilterRecord[f].AccumulatedProgress
    progAccumulated,    \* m_AccumulatedProgress
    progBase,           \* m_BaseAccumulatedProgress
    progMiniProgress,   \* the value last passed to the mini-pipeline filter
    progMiniAbort,      \* m_MiniPipelineFilter->GetAbortGenerateData()
    progFilterAbort,    \* abort flag of each registered filter
    progEvents,         \* number of events sent so far
    progLast,           \* history: the last call of ReportProgress
    \* -- LevelSetMotionRegistrationFunction, two worker threads (SpecLsm)
    lsmGlobalData,      \* the GlobalDataStruct of each thread
    lsmPc,              \* position of each thread
    lsmField,           \* which of the three sums each thread is adding
    lsmLoaded,          \* the value each thread has loaded for its +=
    lsmMutex,           \* holder of m_MetricCalculationMutex, or "free"
    lsmShared,          \* m_SumOfSquaredDifference, m_NumberOfPixels-
                        \* Processed, m_SumOfSquaredChange
    lsmMetric,          \* m_Metric, as numerator and denominator
    lsmRMSChange,       \* m_RMSChange, as the quotient under the root
    \* PointSetToPointSetRegistrationMethod::GenerateData
    regPresent,         \* the components that are set (non-null)
    regInitialTransformParameters,  \* m_InitialTransformParameters
    regNumberOfParameters,  \* m_Transform->GetNumberOfParameters()
    regMetricInitialize,    \* what m_Metric->Initialize() does when called
    regPc,              \* position of GenerateData
    regCurrentPosition, \* m_Optimizer->GetCurrentPosition()
    regLastTransformParameters,     \* m_LastTransformParameters
    regSetParametersCalled, \* m_Transform->SetParameters called by GenerateData
    regFailedIn,        \* the call whose exception left GenerateData
    regThrown,          \* the kind of exception thrown inside the try block
    regRaised,          \* the kind of exception that left GenerateData
    \* PowellOptimizerv4::StartOptimization
    powMetricIsNull,    \* m_Metric.IsNull()
    powMaximumIteration,    \* m_MaximumIteration
    powValueTolerance,  \* m_ValueTolerance
    powSpaceDimension,  \* m_SpaceDimension
    powPc,              \* position of StartOptimization
    powCurrentIteration,    \* m_CurrentIteration
    powI,               \* i of the loop over the directions
    powFx,              \* fx
    powFp,              \* fp
    powDel,             \* del
    powIterationsPerformed, \* bodies of the outer loop entered so far
    powStopCondition,   \* what m_StopConditionDescription tells
    powEvents,          \* summary of the events invoked so far
    \* PowellOptimizerv4::LineBracket
    brStart,            \* the pair (x1, x2) the caller passed
    brX1, brX2, brX3,   \* *x1, *x2, *x3
    brF1, brF2, brF3,   \* *f1, *f2, *f3
    brMetric,           \* the metric on the line, where it has been evaluated
    brCatchGetValueException,   \* m_CatchGetValueException
    brMetricWorstPossibleValue, \* m_MetricWorstPossibleValue
    brLineOrigin,       \* m_LineOrigin
    brLineDirection,    \* m_LineDirection
    brCurrentPosition,  \* m_CurrentPosition
    brCurrentCost,      \* m_CurrentCost
    brPc,               \* position of LineBracket
    \* RegionBasedLevelSetFunction::UpdateSharedData
    rlsInitialImage,    \* m_InitialImage, the level set function phi
    rlsHImage,          \* m_HeavisideFunctionOfLevelSetImage
    rlsUpdateC,         \* m_UpdateC
    rlsInitialUpdateC,  \* m_UpdateC as the construction left it
    rlsParameters,      \* what ComputeParameters computed last
    rlsSharedParameters,    \* what UpdateSharedDataParameters stored last
    rlsCalls,           \* calls of UpdateSharedData so far
    rlsLastCall,        \* the last call: "forced", "unforced" or "none"
    rlsPrevCall,        \* the call before the last
    rlsRan,             \* the functions the last call ran
    rlsParametersSinceForced    \* ComputeParameters runs since the last forced update

faceVars == << faceImage, faceRegion, faceRadius, faceList, facePc >>

gradVars == << gradInput, gradOutput, gradRegion, gradFaceList, gradFace,
               gradBit, gradIt, gradPc, gradWritten >>

iterVars == << iterInput, iterOutput, iterA, iterB, iterVisited, iterPc >>

addrVars == << addrImage, addrRegion, addrPermuted, addrPositionIndex,
               addrPosition, addrUsePixelContainer, addrTempIndex,
               addrTempRange, addrPc >>

reqVars == << reqFilter, reqInputPresent, reqLargest, reqRequested, reqEntry,
              reqRadius, reqRaised, reqPc >>

morphVars == << morphInput, morphOutput, morphKernelRadius, morphOverridden,
                morphBoundaryCondition, morphUseBoundaryCondition, morphRegion,
                morphFaceList, morphFace, morphOSNIter, morphISNIter, morphPc,
                morphWritten >>

doiVars == << doiKeys, doiIterator, doiBegin, doiEnd, doiVisited,
              doiTraversals, doiPc >>

ternVars == << ternA, ternB, ternC, ternResult, ternPc >>

progVars == << progWeight, progFilterProgress, progRecordAccumulated,
               progAccumulated, progBase, progMiniProgress, progMiniAbort,
               progFilterAbort, progEvents, progLast >>

lsmVars == << lsmGlobalData, lsmPc, lsmField, lsmLoaded, lsmMutex, lsmShared,
              lsmMetric, lsmRMSChange >>

regVars == << regPresent, regInitialTransformParameters, regNumberOfParameters,
              regMetricInitialize, regPc, regCurrentPosition,
              regLastTransformParameters, regSetParametersCalled, regFailedIn,
              regThrown, regRaised >>

powVars == << powMetricIsNull, powMaximumIteration, powValueTolerance,
              powSpaceDimension, powPc, powCurrentIteration, powI, powFx,
              powFp, powDel, powIterationsPerformed, powStopCondition,
              powEvents >>

brVars == << brStart, brX1, brX2, brX3, brF1, brF2, brF3, brMetric,
             brCatchGetValueException, brMetricWorstPossibleValue,
             brLineOrigin, brLineDirection, brCurrentPosition, brCurrentCost,
             brPc >>

rlsVars == << rlsInitialImage, rlsHImage, rlsUpdateC, rlsInitialUpdateC,
              rlsParameters, rlsSharedParameters, rlsCalls, rlsLastCall,
              rlsPrevCall, rlsRan, rlsParametersSinceForced >>

vars == << faceVars, gradVars, iterVars, addrVars, reqVars, morphVars,
           doiVars, ternVars, progVars, lsmVars, regVars, powVars, brVars,
           rlsVars >>

\* The region used where a subsystem is idle.
NoRegion == MakeRegion(<<0, 0>>, <<0, 0>>)

IdleFaces ==
    /\ faceImage = NoRegion
    /\ faceRegion = NoRegion
    /\ faceRadius = <<0, 0>>
    /\ faceList = << >>
    /\ facePc = "idle"

IdleGradient ==
    /\ gradInput = [region |-> NoRegion, buffer |-> << >>]
    /\ gradOutput = << >>
    /\ gradRegion = NoRegion
    /\ gradFaceList = << >>
    /\ gradFace = 0
    /\ gradBit = << >>
    /\ gradIt = << >>
    /\ gradPc = "idle"
    /\ gradWritten = {}

IdleIter ==
    /\ iterInput = [region |-> NoRegion, buffer |-> << >>]
    /\ iterOutput = << >>
    /\ iterA = << >>
    /\ iterB = << >>
    /\ iterVisited = << >>
    /\ iterPc = "idle"

IdleAddr ==
    /\ addrImage = [region |-> NoRegion, buffer |-> << >>]
    /\ addrRegion = NoRegion
    /\ addrPermuted = 0
    /\ addrPositionIndex = <<0, 0>>
    /\ addrPosition = 0
    /\ addrUsePixelContainer = FALSE
    /\ addrTempIndex = <<0, 0>>
    /\ addrTempRange = 0
    /\ addrPc = "idle"

NoError == [kind |-> "none", dataObject |-> "none"]

IdleReq ==
    /\ reqFilter = "none"
    /\ reqInputPresent = FALSE
    /\ reqLargest = NoRegion
    /\ reqRequested = NoRegion
    /\ reqEntry = NoRegion
    /\ reqRadius = <<0, 0>>
    /\ reqRaised = NoError
    /\ reqPc = "idle"

IdleMorph ==
    /\ morphInput = [region |-> NoRegion, buffer |-> << >>]
    /\ morphOutput = << >>
    /\ morphKernelRadius = <<0, 0>>
    /\ morphOverridden = FALSE
    /\ morphBoundaryCondition = Constant(0)
    /\ morphUseBoundaryCondition = FALSE
    /\ morphRegion = NoRegion
    /\ morphFaceList = << >>
    /\ morphFace = 0
    /\ morphOSNIter = << >>
    /\ morphISNIter = << >>
    /\ morphPc = "idle"
    /\ morphWritten = {}

IdleDoi ==
    /\ doiKeys = {}
    /\ doiIterator = 0
    /\ doiBegin = 0
    /\ doiEnd = 0
    /\ doiVisited = << >>
    /\ doiTraversals = << >>
    /\ doiPc = "idle"

IdleTern ==
    /\ ternA = 0
    /\ ternB = 0
    /\ ternC = 0
    /\ ternResult = 0
    /\ ternPc = "idle"

NoCall == [who |-> "none", event |-> "none", miniAbort |-> FALSE,
           abortBefore |-> << >>]

IdleProg ==
    /\ progWeight = << >>
    /\ progFilterProgress = << >>
    /\ progRecordAccumulated = << >>
    /\ progAccumulated = 0
    /\ progBase = 0
    /\ progMiniProgress = 0
    /\ progMiniAbort = FALSE
    /\ progFilterAbort = << >>
    /\ progEvents = 0
    /\ progLast = NoCall

NoQuotient == [num |-> 0, den |-> 0]

IdleLsm ==
    /\ lsmGlobalData = << >>
    /\ lsmPc = << >>
    /\ lsmField = << >>
    /\ lsmLoaded = << >>
    /\ lsmMutex = "free"
    /\ lsmShared = << >>
    /\ lsmMetric = NoQuotient
    /\ lsmRMSChange = NoQuotient

IdleReg ==
    /\ regPresent = {}
    /\ regInitialTransformParameters = << >>
    /\ regNumberOfParameters = 0
    /\ regMetricInitialize = "none"
    /\ regPc = "idle"
    /\ regCurrentPosition = << >>
    /\ regLastTransformParameters = << >>
    /\ regSetParametersCalled = FALSE
    /\ regFailedIn = "none"
    /\ regThrown = "none"
    /\ regRaised = "none"

\* No event invoked yet.
NoEvents == [start |-> 0, iteration |-> 0, end |-> 0, afterEnd |-> 0,
             last |-> "none"]

IdlePow ==
    /\ powMetricIsNull = TRUE
    /\ powMaximumIteration = 0
    /\ powValueTolerance = 0
    /\ powSpaceDimension = 0
    /\ powPc = "idle"
    /\ powCurrentIteration = 0
    /\ powI = 0
    /\ powFx = 0
    /\ powFp = 0
    /\ powDel = 0
    /\ powIterationsPerformed = 0
    /\ powStopCondition = "none"
    /\ powEvents = NoEvents

IdleBr ==
    /\ brStart = << 0, 0 >>
    /\ brX1 = 0
    /\ brX2 = 0
    /\ brX3 = 0
    /\ brF1 = 0
    /\ brF2 = 0
    /\ brF3 = 0
    /\ brMetric = {}
    /\ brCatchGetValueException = FALSE
    /\ brMetricWorstPossibleValue = 0
    /\ brLineOrigin = 0
    /\ brLineDirection = 0
    /\ brCurrentPosition = 0
    /\ brCurrentCost = 0
    /\ brPc = "idle"

IdleRls ==
    /\ rlsInitialImage = << >>
    /\ rlsHImage = << >>
    /\ rlsUpdateC = FALSE
    /\ rlsInitialUpdateC = FALSE
    /\ rlsParameters = 0
    /\ rlsSharedParameters = 0
    /\ rlsCalls = 0
    /\ rlsLastCall = "none"
    /\ rlsPrevCall = "none"
    /\ rlsRan = {}
    /\ rlsParametersSinceForced = 0

\* Every subsystem but the named one is idle.
OthersIdle(running) ==
    /\ IF running = "faces" THEN TRUE ELSE IdleFaces
    /\ IF running = "gradient" THEN TRUE ELSE IdleGradient
    /\ IF running = "iter" THEN TRUE ELSE IdleIter
    /\ IF running = "addr" THEN TRUE ELSE IdleAddr
    /\ IF running = "request" THEN TRUE ELSE IdleReq
    /\ IF running = "morphology" THEN TRUE ELSE IdleMorph
    /\ IF running = "dataiter" THEN TRUE ELSE IdleDoi
    /\ IF running = "ternary" THEN TRUE ELSE IdleTern
    /\ IF running = "progress" THEN TRUE ELSE IdleProg
    /\ IF running = "lsm" THEN TRUE ELSE IdleLsm
    /\ IF running = "registration" THEN TRUE ELSE IdleReg
    /\ IF running = "powell" THEN TRUE ELSE IdlePow
    /\ IF running = "bracket" THEN TRUE ELSE IdleBr
    /\ IF running = "shareddata" THEN TRUE ELSE IdleRls

\* No subsystem but the named one changes.
OthersUnchanged(running) ==
    /\ IF running = "faces" THEN TRUE ELSE UNCHANGED faceVars
    /\ IF running = "gradient" THEN TRUE ELSE UNCHANGED gradVars
    /\ IF running = "iter" THEN TRUE ELSE UNCHANGED iterVars
    /\ IF running = "addr" THEN TRUE ELSE UNCHANGED addrVars
    /\ IF running = "request" THEN TRUE ELSE UNCHANGED reqVars
    /\ IF running = "morphology" THEN TRUE ELSE UNCHANGED morphVars
    /\ IF running = "dataiter" THEN TRUE ELSE UNCHANGED doiVars
    /\ IF running = "ternary" THEN TRUE ELSE UNCHANGED ternVars
    /\ IF running = "progress" THEN TRUE ELSE UNCHANGED progVars
    /\ IF running = "lsm" THEN TRUE ELSE UNCHANGED lsmVars
    /\ IF running = "registration" THEN TRUE ELSE UNCHANGED regVars
    /\ IF running = "powell" THEN TRUE ELSE UNCHANGED powVars
    /\ IF running = "bracket" THEN TRUE ELSE UNCHANGED brVars
    /\ IF running = "shareddata" THEN TRUE ELSE UNCHANGED rlsVars

(***************************************************************************)
(* SpecFaces: the decomposition applied to every image, region and radius  *)
(* within the bounds.                                                      *)
(***************************************************************************)
\* Start indices of the buffered regions tried.
StartIndices == { <<0, 0>>, <<-1, 2>> }

BufferedRegions(maxSize) ==
    { MakeRegion(start, <<sx, sy>>) :
        start \in StartIndices, sx \in 1 .. maxSize, sy \in 1 .. maxSize }

\* An image whose pixels all differ: the pixel at linear offset o is o + 1.
DistinctPixels(region) ==
    [region |-> region,
     buffer |-> [o \in 0 .. (GetNumberOfPixels(region) - 1) |-> o + 1]]

Radii(maxRadius) == { <<rx, ry>> : rx \in 0 .. maxRadius, ry \in 0 .. maxRadius }

InitFaces ==
    /\ faceImage \in BufferedRegions(MaxSize)
    /\ faceRegion \in SubRegions(faceImage)
    /\ faceRadius \in Radii(MaxRadius)
    /\ faceList = << >>
    /\ facePc = "call"
    /\ OthersIdle("faces")

\* faceList = fC(image, regionToProcess, radius)
ComputeFaces ==
    /\ facePc = "call"
    /\ faceList' = ImageBoundaryFacesCalculator(faceImage, faceRegion, faceRadius)
    /\ facePc' = "done"
    /\ UNCHANGED << faceImage, faceRegion, faceRadius >>

    /\ OthersUnchanged("faces")

NextFaces == ComputeFaces

SpecFaces == InitFaces /\ [][NextFaces]_vars

\* The index sets of the faces are pairwise disjoint and their union is the
\* index set of region r.
IsPartition(faces, r) ==
    /\ UNION { IndexSet(faces[i]) : i \in DOMAIN faces } = IndexSet(r)
    /\ \A i, j \in DOMAIN faces :
          i # j => IndexSet(faces[i]) \cap IndexSet(faces[j]) = {}

RECURSIVE SumOfPixels(_)
SumOfPixels(faces) ==
    IF faces = << >> THEN 0
    ELSE GetNumberOfPixels(Head(faces)) + SumOfPixels(Tail(faces))

\* C1: for every region R and radius r the face list is a partition of R:
\* the faces are pairwise disjoint and the union of their index sets is
\* exactly the index set of R.
C1_FacesPartitionRegion ==
    facePc = "done" => IsPartition(faceList, faceRegion)

\* A decomposition of a proper sub-region into an interior and four faces.
C1_Witness ==
    /\ facePc = "done"
    /\ Len(faceList) = 5
    /\ IndexSet(faceList[1]) # {}
    /\ faceRegion # faceImage

\* C9 as stated: the interior face is empty if and only if every axis extent
\* of R is at most 2r.
C9_EmptyIffEveryAxisSmall ==
    facePc = "done" =>
        (IndexSet(faceList[1]) = {}
            <=> \A a \in Axes : faceRegion.size[a] <= 2 * faceRadius[a])

\* C9 amended: the interior face is empty if and only if on some axis the
\* extent of R is at most the amount by which R padded by r reaches beyond
\* the buffered region (low and high side together); when R is the whole
\* buffered region that is: if and only if some axis extent is at most 2r.
C9_EmptyIffSomeAxisConsumed ==
    facePc = "done" =>
        /\ IndexSet(faceList[1]) = {}
              <=> \E a \in Axes :
                    faceRegion.size[a] <=
                        OverhangLow(faceImage, faceRegion, faceRadius, a)
                        + OverhangHigh(faceImage, faceRegion, faceRadius, a)
        /\ faceRegion = faceImage =>
              (IndexSet(faceList[1]) = {}
                  <=> \E a \in Axes : faceRegion.size[a] <= 2 * faceRadius[a])

\* An empty interior of a whole image that is wide on one axis only.
C9_Witness ==
    /\ facePc = "done"
    /\ faceRegion = faceImage
    /\ IndexSet(faceList[1]) = {}
    /\ \E a \in Axes : faceRegion.size[a] > 2 * faceRadius[a]
    /\ faceRadius[1] > 0

\* C10: a 2-D image of size (5,5) decomposed over its whole region with
\* radius 1 gives an interior of size (3,3) at (1,1) followed by exactly four
\* boundary faces, and the pixel counts of the five faces sum to 25.
C10_Scenario5x5 ==
    ( /\ facePc = "done"
      /\ faceImage = MakeRegion(<<0, 0>>, <<5, 5>>)
      /\ faceRegion = faceImage
      /\ faceRadius = <<1, 1>> )
    => /\ faceList[1] = MakeRegion(<<1, 1>>, <<3, 3>>)
       /\ Len(faceList) = 5
       /\ SumOfPixels(faceList) = 25

C10_Witness ==
    /\ facePc = "done"
    /\ faceImage = MakeRegion(<<0, 0>>, <<5, 5>>)
    /\ faceRegion = faceImage
    /\ faceRadius = <<1, 1>>
    /\ Len(faceList) = 5


(***************************************************************************)
(* SpecGradient: one call of VectorGradientMagnitudeImageFilter::Dynamic-  *)
(* ThreadedGenerateData(outputRegionForThread), for every region a worker  *)
(* can be handed.                                                          *)
(***************************************************************************)
\* r1 = MakeFilled<RadiusType>(1)
r1 == [a \in Axes |-> 1]

\* The neighbor number of the center of a neighborhood.
CenterNeighbor(radius) == (NeighborhoodSize(radius) - 1) \div 2

\* it.GetNext(a) and it.GetPrevious(a) of neighborhood iterator nit over img.
GetNext(img, nit, a) ==
    GetPixel(img, nit.radius, nit.bc, nit.index,
             CenterNeighbor(nit.radius)
             + Stride([x \in Axes |-> 2 * nit.radius[x] + 1], a)).value

GetPrevious(img, nit, a) ==
    GetPixel(img, nit.radius, nit.bc, nit.index,
             CenterNeighbor(nit.radius)
             - Stride([x \in Axes |-> 2 * nit.radius[x] + 1], a)).value

\* The value the filter stores: the sum over the axes of the squared central
\* differences (weights 1; the scaling and the square root are left out).
RECURSIVE SquaredDifferences(_, _, _)
SquaredDifferences(img, nit, a) ==
    IF a \notin Axes THEN 0
    ELSE (GetNext(img, nit, a) - GetPrevious(img, nit, a))
         * (GetNext(img, nit, a) - GetPrevious(img, nit, a))
         + SquaredDifferences(img, nit, a + 1)

EvaluateAtNeighborhood(img, nit) == SquaredDifferences(img, nit, 1)

\* NeighborhoodIterator(radius, image, region): a region iterator with a
\* radius and the default boundary condition.
MakeNeighborhoodIterator(radius, region) ==
    [region |-> region, index |-> region.index,
     state |-> MakeIterator(region).state,
     radius |-> radius, bc |-> Constant(0)]

InitGradient ==
    /\ \E b \in BufferedRegions(GradMaxSize) : gradInput = DistinctPixels(b)
    /\ gradRegion \in SubRegions(gradInput.region)
    /\ gradOutput = [idx \in IndexSet(gradInput.region) |-> -1]
    /\ gradFaceList = << >>
    /\ gradFace = 0
    /\ gradBit = MakeNeighborhoodIterator(r1, NoRegion)
    /\ gradIt = MakeIterator(NoRegion)
    /\ gradPc = "faces"
    /\ gradWritten = {}
    /\ OthersIdle("gradient")

\* GradComputeFaces handing the calculator a radius of 0 instead of r1.
GradComputeFacesRadius0 ==
    /\ gradPc = "faces"
    /\ gradFaceList' = ImageBoundaryFacesCalculator(
                           gradInput.region, gradRegion, [a \in Axes |-> 0])
    /\ gradFace' = 1
    /\ gradPc' = "construct"
    /\ UNCHANGED << gradInput, gradOutput, gradRegion, gradBit, gradIt,
                    gradWritten >>
    /\ OthersUnchanged("gradient")

\* faceList = bC(m_RealValuedInputImage, outputRegionForThread, r1)
GradComputeFaces ==
    /\ gradPc = "faces"
    /\ gradFaceList' = ImageBoundaryFacesCalculator(
                           gradInput.region, gradRegion, r1)
    /\ gradFace' = 1
    /\ gradPc' = "construct"
    /\ UNCHANGED << gradInput, gradOutput, gradRegion, gradBit, gradIt,
                    gradWritten >>
    /\ OthersUnchanged("gradient")

\* bit = ConstNeighborhoodIteratorType(r1, input, face);
\* it = ImageRegionIterator<TOutputImage>(output, face)
GradConstruct ==
    /\ gradPc = "construct"
    /\ gradBit' = MakeNeighborhoodIterator(r1, gradFaceList[gradFace])
    /\ gradIt' = MakeIterator(gradFaceList[gradFace])
    /\ gradPc' = "override"
    /\ UNCHANGED << gradInput, gradOutput, gradRegion, gradFaceList, gradFace,
                    gradWritten >>
    /\ OthersUnchanged("gradient")

\* GradOverride without the call: the default boundary condition stays.
GradOverrideMissing ==
    /\ gradPc = "override"
    /\ gradPc' = "begin"
    /\ UNCHANGED << gradInput, gradOutput, gradRegion, gradFaceList, gradFace,
                    gradBit, gradIt, gradWritten >>
    /\ OthersUnchanged("gradient")

\* bit.OverrideBoundaryCondition(&nbc), nbc a ZeroFluxNeumannBoundaryCondition
GradOverride ==
    /\ gradPc = "override"
    /\ gradBit' = [gradBit EXCEPT !.bc = ZeroFluxNeumann]
    /\ gradPc' = "begin"
    /\ UNCHANGED << gradInput, gradOutput, gradRegion, gradFaceList, gradFace,
                    gradIt, gradWritten >>
    /\ OthersUnchanged("gradient")

\* bit.GoToBegin()
GradGoToBegin ==
    /\ gradPc = "begin"
    /\ gradBit' = GoToBegin(gradBit)
    /\ gradPc' = "loop"
    /\ UNCHANGED << gradInput, gradOutput, gradRegion, gradFaceList, gradFace,
                    gradIt, gradWritten >>
    /\ OthersUnchanged("gradient")

\* One turn of while (!bit.IsAtEnd()):
\* it.Set(EvaluateAtNeighborhood(bit)); ++bit; ++it
GradPixel ==
    /\ gradPc = "loop"
    /\ ~IsAtEnd(gradBit)
    /\ gradOutput' = [gradOutput EXCEPT ![gradIt.index] =
                         EvaluateAtNeighborhood(gradInput, gradBit)]
    /\ gradWritten' = gradWritten \cup { gradIt.index }
    /\ gradBit' = Increment(gradBit)
    /\ gradIt' = Increment(gradIt)
    /\ UNCHANGED << gradInput, gradRegion, gradFaceList, gradFace, gradPc >>
    /\ OthersUnchanged("gradient")

\* The face is exhausted: the next face of the list, or the end of the call.
GradNextFace ==
    /\ gradPc = "loop"
    /\ IsAtEnd(gradBit)
    /\ IF gradFace < Len(gradFaceList)
          THEN gradFace' = gradFace + 1 /\ gradPc' = "construct"
          ELSE gradPc' = "done" /\ UNCHANGED gradFace
    /\ UNCHANGED << gradInput, gradOutput, gradRegion, gradFaceList, gradBit,
                    gradIt, gradWritten >>
    /\ OthersUnchanged("gradient")

NextGradient ==
    \/ GradComputeFaces
    \/ GradConstruct
    \/ GradOverride
    \/ GradGoToBegin
    \/ GradPixel
    \/ GradNextFace

SpecGradient == InitGradient /\ [][NextGradient]_vars

\* The neighbor numbers of a neighborhood iterator.
Neighbors(nit) == 0 .. (NeighborhoodSize(nit.radius) - 1)

\* The call is in the pixel loop of a face, at a pixel.
GradAtPixel == gradPc = "loop" /\ ~IsAtEnd(gradBit)

\* C2: the first element of the face list is the interior face (the indices
\* of the region whose radius-r neighborhood lies in the buffered region),
\* and at every index of it GetPixel(k) of a radius-r neighborhood iterator
\* is, for every neighbor k, the direct buffer read at the neighbor's
\* absolute index, the boundary condition not being invoked.
C2_InteriorFaceUnchecked ==
    /\ gradPc = "construct" =>
         IndexSet(gradFaceList[1]) =
            { idx \in IndexSet(gradRegion) :
                \A k \in 0 .. (NeighborhoodSize(r1) - 1) :
                    IsInside(gradInput.region, NeighborIndex(idx, r1, k)) }
    /\ (GradAtPixel /\ gradFace = 1) =>
         \A k \in Neighbors(gradBit) :
            LET p == GetPixel(gradInput, gradBit.radius, gradBit.bc,
                              gradBit.index, k)
            IN  /\ p.isInside
                /\ p.value = PixelAt(gradInput,
                                 NeighborIndex(gradBit.index, gradBit.radius, k))

\* The call at a later pixel of an interior face that has boundary faces.
C2_Witness ==
    /\ GradAtPixel
    /\ gradFace = 1
    /\ Len(gradFaceList) > 1
    /\ gradBit.index # gradBit.region.index

\* C6: with the ZeroFluxNeumann boundary condition, GetPixel(k) for every
\* neighbor k whose absolute index is outside the buffered region is the
\* buffer value at that index clamped, axis by axis, to the nearest
\* coordinate of the buffered region.
C6_ZeroFluxClamps ==
    GradAtPixel =>
        \A k \in Neighbors(gradBit) :
            LET b == gradInput.region
                abs == NeighborIndex(gradBit.index, gradBit.radius, k)
                nearest == [a \in Axes |->
                              IF abs[a] < b.index[a] THEN b.index[a]
                              ELSE IF abs[a] >= UpperBound(b, a)
                                   THEN UpperBound(b, a) - 1
                              ELSE abs[a]]
            IN  ~IsInside(b, abs) =>
                    GetPixel(gradInput, gradBit.radius, gradBit.bc,
                             gradBit.index, k).value
                        = PixelAt(gradInput, nearest)

\* The call at a boundary pixel with a neighbor outside on both axes.
C6_Witness ==
    /\ GradAtPixel
    /\ gradBit.bc = ZeroFluxNeumann
    /\ \E k \in Neighbors(gradBit) :
          LET abs == NeighborIndex(gradBit.index, gradBit.radius, k)
          IN  /\ abs[1] < gradInput.region.index[1]
              /\ abs[2] >= UpperBound(gradInput.region, 2)
              /\ GetPixel(gradInput, gradBit.radius, gradBit.bc,
                          gradBit.index, k).value > 1

\* Every output pixel the call has written lies in outputRegionForThread.
GradWritesInOwnRegion == gradWritten \subseteq IndexSet(gradRegion)


(***************************************************************************)
(* SpecIter: the copy loop of watershed Relabeler::GenerateData, two       *)
(* region iterators walking the output requested region side by side.      *)
(***************************************************************************)
InitIter ==
    /\ \E b \in BufferedRegions(IterMaxSize) : iterInput = DistinctPixels(b)
    /\ \E q \in SubRegions(iterInput.region) :
         \* output->SetBufferedRegion(output->GetRequestedRegion()); Allocate()
         /\ iterOutput = [idx \in IndexSet(q) |-> 0]
         \* it_a(input, requestedRegion), it_b(output, requestedRegion)
         /\ iterA = MakeIterator(q)
         /\ iterB = MakeIterator(q)
    /\ iterVisited = << >>
    /\ iterPc = "begin"
    /\ OthersIdle("iter")

\* it_a.GoToBegin(); it_b.GoToBegin()
IterGoToBegin ==
    /\ iterPc = "begin"
    /\ iterA' = GoToBegin(iterA)
    /\ iterB' = GoToBegin(iterB)
    /\ iterPc' = "loop"
    /\ UNCHANGED << iterInput, iterOutput, iterVisited >>
    /\ OthersUnchanged("iter")

\* IterCopy advancing it_a twice.
IterCopyTwice ==
    /\ iterPc = "loop"
    /\ ~IsAtEnd(iterA)
    /\ iterOutput' = [iterOutput EXCEPT ![iterB.index] =
                         PixelAt(iterInput, iterA.index)]
    /\ iterVisited' = Append(iterVisited, iterA.index)
    /\ iterA' = Increment(Increment(iterA))
    /\ iterB' = Increment(iterB)
    /\ UNCHANGED << iterInput, iterPc >>
    /\ OthersUnchanged("iter")

\* One turn of while (!it_a.IsAtEnd()): it_b.Set(it_a.Get()); ++it_a; ++it_b
IterCopy ==
    /\ iterPc = "loop"
    /\ ~IsAtEnd(iterA)
    /\ iterOutput' = [iterOutput EXCEPT ![iterB.index] =
                         PixelAt(iterInput, iterA.index)]
    /\ iterVisited' = Append(iterVisited, iterA.index)
    /\ iterA' = Increment(iterA)
    /\ iterB' = Increment(iterB)
    /\ UNCHANGED << iterInput, iterPc >>
    /\ OthersUnchanged("iter")

\* it_a.IsAtEnd(): the loop is left.
IterLeave ==
    /\ iterPc = "loop"
    /\ IsAtEnd(iterA)
    /\ iterPc' = "done"
    /\ UNCHANGED << iterInput, iterOutput, iterA, iterB, iterVisited >>
    /\ OthersUnchanged("iter")

NextIter == IterGoToBegin \/ IterCopy \/ IterLeave

SpecIter == InitIter /\ [][NextIter]_vars

\* Index i comes before index j in row-major order (axis 0 fastest).
RowMajorLess(i, j) ==
    \E a \in Axes : i[a] < j[a] /\ \A c \in Axes : c > a => i[c] = j[c]

\* Index j is the row-major successor of index i in region r: +1 on axis 0,
\* or axis 0 back at the origin of r with +1 carried into the next axis
\* that does not roll over.
RowMajorNext(r, i, j) ==
    \E a \in Axes :
        /\ j[a] = i[a] + 1
        /\ \A c \in Axes : c > a => j[c] = i[c]
        /\ \A c \in Axes : c < a =>
              i[c] = UpperBound(r, c) - 1 /\ j[c] = r.index[c]

\* C3: a region iterator run from GoToBegin until IsAtEnd visits exactly
\* GetNumberOfPixels(R) positions, every index of R exactly once and none
\* outside R, in strictly increasing row-major order, each position the
\* row-major successor of the one before.
C3_VisitsRegionInRowMajorOrder ==
    /\ \A n \in DOMAIN iterVisited : IsInside(iterA.region, iterVisited[n])
    /\ \A n, m \in DOMAIN iterVisited :
          n < m => /\ iterVisited[n] # iterVisited[m]
                   /\ RowMajorLess(iterVisited[n], iterVisited[m])
    /\ \A n \in DOMAIN iterVisited :
          n > 1 => RowMajorNext(iterA.region, iterVisited[n - 1], iterVisited[n])
    /\ iterPc = "done" =>
          /\ Len(iterVisited) = GetNumberOfPixels(iterA.region)
          /\ { iterVisited[n] : n \in DOMAIN iterVisited } = IndexSet(iterA.region)

\* A finished walk of a proper sub-region that carried into axis 1.
C3_Witness ==
    /\ iterPc = "done"
    /\ iterA.region # iterInput.region
    /\ iterA.region.size[1] > 1
    /\ iterA.region.size[2] > 1
    /\ Len(iterVisited) = GetNumberOfPixels(iterA.region)

\* The copy is complete: every output pixel holds the input pixel.
IterCopied ==
    iterPc = "done" =>
        \A idx \in IndexSet(iterA.region) : iterOutput[idx] = PixelAt(iterInput, idx)

(***************************************************************************)
(* SpecOffset: ImageRandomNonRepeatingConstIteratorWithIndex::Update-      *)
(* Position turns a permutation entry into an index and a buffer position; *)
(* JointDomainImageToListSampleAdaptor::GetMeasurementVector turns the     *)
(* buffer position (the instance identifier) back into an index.           *)
(***************************************************************************)
InitAddr ==
    /\ \E b \in BufferedRegions(AddrMaxSize) : addrImage = DistinctPixels(b)
    /\ addrRegion \in SubRegions(addrImage.region)
    /\ addrPermuted \in 0 .. (GetNumberOfPixels(addrRegion) - 1)
    /\ addrUsePixelContainer \in BOOLEAN
    /\ addrPositionIndex = <<0, 0>>
    /\ addrPosition = 0
    /\ addrTempIndex = <<0, 0>>
    /\ addrTempRange = 0
    /\ addrPc = "update"
    /\ OthersIdle("addr")

\* UpdatePosition(): m_PositionIndex decoded from the permutation entry with
\* the sizes and the begin index of m_Region;
\* m_Position = GetBufferPointer() + ComputeOffset(m_PositionIndex)
UpdatePosition ==
    /\ addrPc = "update"
    /\ addrPositionIndex' =
           DecodeFrom(addrPermuted, addrRegion.size, addrRegion.index, 1)
    /\ addrPosition' = ComputeOffset(addrImage.region, addrPositionIndex')
    /\ addrPc' = "measure"
    /\ UNCHANGED << addrImage, addrRegion, addrPermuted, addrUsePixelContainer,
                    addrTempIndex, addrTempRange >>
    /\ OthersUnchanged("addr")

\* GetMeasurementVector(id) with id the buffer position:
\* m_TempIndex = ComputeIndex(id); the pixel is read from the pixel
\* container at id, or from the image at ComputeIndex(id).
GetMeasurementVector ==
    /\ addrPc = "measure"
    /\ addrTempIndex' = ComputeIndex(addrImage.region, addrPosition)
    /\ addrTempRange' =
           IF addrUsePixelContainer
               THEN addrImage.buffer[addrPosition]
               ELSE PixelAt(addrImage,
                            ComputeIndex(addrImage.region, addrPosition))
    /\ addrPc' = "done"
    /\ UNCHANGED << addrImage, addrRegion, addrPermuted, addrPositionIndex,
                    addrPosition, addrUsePixelContainer >>
    /\ OthersUnchanged("addr")

NextAddr == UpdatePosition \/ GetMeasurementVector

SpecOffset == InitAddr /\ [][NextAddr]_vars

\* C4: for every index idx inside the buffered region,
\* ComputeIndex(ComputeOffset(idx)) = idx.
C4_ComputeIndexInvertsComputeOffset ==
    /\ addrPc # "update" =>
          /\ IsInside(addrImage.region, addrPositionIndex)
          /\ ComputeIndex(addrImage.region,
                          ComputeOffset(addrImage.region, addrPositionIndex))
                = addrPositionIndex
    /\ addrPc = "done" => addrTempIndex = addrPositionIndex

\* An index away from the origin on both axes, in an image whose origin is
\* not 0, has made the round trip.
C4_Witness ==
    /\ addrPc = "done"
    /\ addrImage.region.index # <<0, 0>>
    /\ addrPositionIndex[1] > addrImage.region.index[1]
    /\ addrPositionIndex[2] > addrImage.region.index[2]
    /\ addrTempIndex = addrPositionIndex

\* Both ways of reading the pixel of an instance identifier agree.
AddrSamePixel ==
    addrPc = "done" => addrTempRange = addrImage.buffer[addrPosition]


(***************************************************************************)
(* SpecRequest: GenerateInputRequestedRegion of ObjectMorphologyImage-     *)
(* Filter and of VectorGradientMagnitudeImageFilter.                       *)
(***************************************************************************)

\* Region::PadByRadius: grown by radius on both sides of every axis.
PadByRadius(r, radius) ==
    MakeRegion([a \in Axes |-> r.index[a] - radius[a]],
               [a \in Axes |-> r.size[a] + 2 * radius[a]])

\* The two regions share at least one index.
Overlaps(r, other) == IndexSet(r) \cap IndexSet(other) # {}

\* Crop succeeding whatever the two regions are.
CropAlways(r, other) ==
    LET lo == [a \in Axes |-> Max(r.index[a], other.index[a])]
        hi == [a \in Axes |-> Min(UpperBound(r, a), UpperBound(other, a))]
    IN  [ok |-> TRUE, region |-> MakeRegion(lo, [a \in Axes |-> hi[a] - lo[a]])]

\* Region::Crop(other): [ok, region]; the intersection on success, the
\* region as it was on failure.
Crop(r, other) ==
    IF \A a \in Axes : /\ r.index[a] < UpperBound(other, a)
                       /\ other.index[a] < UpperBound(r, a)
        THEN LET lo == [a \in Axes |-> Max(r.index[a], other.index[a])]
                 hi == [a \in Axes |-> Min(UpperBound(r, a), UpperBound(other, a))]
             IN  [ok |-> TRUE,
                  region |-> MakeRegion(lo, [a \in Axes |-> hi[a] - lo[a]])]
        ELSE [ok |-> FALSE, region |-> r]

\* Regions of at least one pixel that start within ReqReach of index 0.
RequestedRegions ==
    { MakeRegion(<<x, y>>, <<sx, sy>>) :
        x \in (0 - ReqReach) .. ReqReach, y \in (0 - ReqReach) .. ReqReach,
        sx \in 1 .. ReqMaxSize, sy \in 1 .. ReqMaxSize }

\* The state after Superclass::GenerateInputRequestedRegion(): the input's
\* requested region is a copy of the output's.
InitReq ==
    /\ reqFilter \in {"morphology", "gradient"}
    /\ reqInputPresent \in BOOLEAN
    /\ reqLargest \in BufferedRegions(ReqMaxSize)
    /\ reqRequested \in RequestedRegions
    /\ reqEntry = reqRequested
    /\ reqRadius \in (IF reqFilter = "morphology" THEN Radii(ReqMaxRadius)
                                                  ELSE {<<0, 0>>})
    /\ reqRaised = NoError
    /\ reqPc = "call"
    /\ OthersIdle("request")

\* The body shared by the two filters, for operator radius `radius`:
\* return without an input; pad; crop; on success store the cropped region;
\* on failure store the padded region and throw with the input as data
\* object.
PadCropOrThrow(radius) ==
    LET padded == PadByRadius(reqRequested, radius)
        cropped == Crop(padded, reqLargest)
    IN  IF ~reqInputPresent
            THEN UNCHANGED << reqRequested, reqRaised >>
        ELSE IF cropped.ok
            THEN /\ reqRequested' = cropped.region
                 /\ UNCHANGED reqRaised
        ELSE /\ reqRequested' = padded
             /\ reqRaised' = [kind |-> "InvalidRequestedRegionError",
                              dataObject |-> "input"]

\* MorphGenerateInputRequestedRegion throwing without storing the region
\* it tried to request.
MorphGenerateThrowOnly ==
    /\ reqPc = "call"
    /\ reqFilter = "morphology"
    /\ LET cropped == Crop(PadByRadius(reqRequested, reqRadius), reqLargest)
       IN  IF ~reqInputPresent
               THEN UNCHANGED << reqRequested, reqRaised >>
           ELSE IF cropped.ok
               THEN /\ reqRequested' = cropped.region
                    /\ UNCHANGED reqRaised
           ELSE /\ UNCHANGED reqRequested
                /\ reqRaised' = [kind |-> "InvalidRequestedRegionError",
                                 dataObject |-> "input"]
    /\ reqPc' = "done"
    /\ UNCHANGED << reqFilter, reqInputPresent, reqLargest, reqEntry, reqRadius >>
    /\ OthersUnchanged("request")

\* ObjectMorphologyImageFilter::GenerateInputRequestedRegion: the radius is
\* m_Kernel.GetRadius().
MorphGenerateInputRequestedRegion ==
    /\ reqPc = "call"
    /\ reqFilter = "morphology"
    /\ PadCropOrThrow(reqRadius)
    /\ reqPc' = "done"
    /\ UNCHANGED << reqFilter, reqInputPresent, reqLargest, reqEntry, reqRadius >>
    /\ OthersUnchanged("request")

\* GradGenerateInputRequestedRegion storing the padded region without
\* cropping it.
GradGenerateNoCrop ==
    /\ reqPc = "call"
    /\ reqFilter = "gradient"
    /\ LET padded == PadByRadius(reqRequested, r1)
       IN  IF ~reqInputPresent
               THEN UNCHANGED << reqRequested, reqRaised >>
           ELSE IF Crop(padded, reqLargest).ok
               THEN /\ reqRequested' = padded
                    /\ UNCHANGED reqRaised
           ELSE /\ reqRequested' = padded
                /\ reqRaised' = [kind |-> "InvalidRequestedRegionError",
                                 dataObject |-> "input"]
    /\ reqPc' = "done"
    /\ UNCHANGED << reqFilter, reqInputPresent, reqLargest, reqEntry, reqRadius >>
    /\ OthersUnchanged("request")

\* VectorGradientMagnitudeImageFilter::GenerateInputRequestedRegion: the
\* radius is r1.
GradGenerateInputRequestedRegion ==
    /\ reqPc = "call"
    /\ reqFilter = "gradient"
    /\ PadCropOrThrow(r1)
    /\ reqPc' = "done"
    /\ UNCHANGED << reqFilter, reqInputPresent, reqLargest, reqEntry, reqRadius >>
    /\ OthersUnchanged("request")

NextReq == MorphGenerateInputRequestedRegion \/ GradGenerateInputRequestedRegion

SpecRequest == InitReq /\ [][NextReq]_vars

\* The operator radius of the filter in use.
OperatorRadius == IF reqFilter = "morphology" THEN reqRadius ELSE r1

ReqGradientRaised ==
    /\ reqPc = "done"
    /\ reqFilter = "gradient"
    /\ reqRaised # NoError

\* On success the stored region is the padded region cut to the
\* LargestPossibleRegion.
ReqStoresIntersection ==
    (reqPc = "done" /\ reqInputPresent /\ reqRaised = NoError) =>
        IndexSet(reqRequested) =
            IndexSet(PadByRadius(reqEntry, OperatorRadius)) \cap IndexSet(reqLargest)


(***************************************************************************)
(* SpecMorph: one call of ObjectMorphologyImageFilter::DynamicThreaded-    *)
(* GenerateData(outputRegionForThread), for every region a worker can be   *)
(* handed, after the constructor and BeforeThreadedGenerateData.           *)
(***************************************************************************)
\* m_ObjectValue(NumericTraits<PixelType>::OneValue())
m_ObjectValue == 1

\* The constructor with a default boundary condition of constant 1.
DefaultBoundaryConditionOne == Constant(1)

\* m_DefaultBoundaryCondition.SetConstant(PixelType{})
m_DefaultBoundaryCondition == Constant(0)

\* bKernelSize = MakeFilled<RadiusType>(1)
bKernelSize == [a \in Axes |-> 1]

\* A constant that is neither the background nor the object value.
OtherValue == m_ObjectValue + 1

\* Images buffered at index 0 of extent up to maxSize.
MorphRegions(maxSize) ==
    { MakeRegion(<<0, 0>>, <<sx, sy>>) : sx \in 1 .. maxSize, sy \in 1 .. maxSize }

\* The binary image over region b whose object is the box obj.
ObjectImage(b, obj) ==
    [region |-> b,
     buffer |-> [o \in 0 .. (GetNumberOfPixels(b) - 1) |->
                    IF IsInside(obj, ComputeIndex(b, o)) THEN m_ObjectValue ELSE 0]]

\* The state after the constructor, the user's settings and
\* BeforeThreadedGenerateData, which (the object value not being 0) fills
\* the output with 0 and copies the input into it.
InitMorph ==
    /\ \E b \in MorphRegions(MorphMaxSize) : \E obj \in SubRegions(b) :
          morphInput = ObjectImage(b, obj)
    /\ morphOutput = [idx \in IndexSet(morphInput.region) |->
                         PixelAt(morphInput, idx)]
    /\ \E r \in 0 .. MorphMaxRadius : morphKernelRadius = [a \in Axes |-> r]
    /\ morphOverridden \in BOOLEAN
    /\ morphBoundaryCondition =
          (IF morphOverridden THEN Constant(OtherValue)
                              ELSE m_DefaultBoundaryCondition)
    /\ morphUseBoundaryCondition \in BOOLEAN
    /\ morphRegion \in SubRegions(morphInput.region)
    /\ morphFaceList = << >>
    /\ morphFace = 0
    /\ morphOSNIter = MakeNeighborhoodIterator(morphKernelRadius, NoRegion)
    /\ morphISNIter = MakeNeighborhoodIterator(bKernelSize, NoRegion)
    /\ morphPc = "faces"
    /\ morphWritten = {}
    /\ OthersIdle("morphology")

\* faceList = fC(GetInput(), outputRegionForThread, m_Kernel.GetRadius())
MorphComputeFaces ==
    /\ morphPc = "faces"
    /\ morphFaceList' = ImageBoundaryFacesCalculator(
                            morphInput.region, morphRegion, morphKernelRadius)
    /\ morphFace' = 1
    /\ morphPc' = "output"
    /\ UNCHANGED << morphInput, morphOutput, morphKernelRadius, morphOverridden,
                    morphBoundaryCondition, morphUseBoundaryCondition,
                    morphRegion, morphOSNIter, morphISNIter, morphWritten >>
    /\ OthersUnchanged("morphology")

\* oSNIter = OutputNeighborhoodIteratorType(m_Kernel.GetRadius(), output,
\* face); oSNIter.GoToBegin()
MorphConstructOutput ==
    /\ morphPc = "output"
    /\ morphOSNIter' = GoToBegin(MakeNeighborhoodIterator(
                                    morphKernelRadius, morphFaceList[morphFace]))
    /\ morphPc' = "input"
    /\ UNCHANGED << morphInput, morphOutput, morphKernelRadius, morphOverridden,
                    morphBoundaryCondition, morphUseBoundaryCondition,
                    morphRegion, morphFaceList, morphFace, morphISNIter,
                    morphWritten >>
    /\ OthersUnchanged("morphology")

\* iSNIter = InputNeighborhoodIteratorType(bKernelSize, input, face)
MorphConstructInput ==
    /\ morphPc = "input"
    /\ morphISNIter' = MakeNeighborhoodIterator(
                           bKernelSize, morphFaceList[morphFace])
    /\ morphPc' = "override"
    /\ UNCHANGED << morphInput, morphOutput, morphKernelRadius, morphOverridden,
                    morphBoundaryCondition, morphUseBoundaryCondition,
                    morphRegion, morphFaceList, morphFace, morphOSNIter,
                    morphWritten >>
    /\ OthersUnchanged("morphology")

\* MorphOverride without the call: iSNIter keeps its own default condition.
MorphOverrideMissing ==
    /\ morphPc = "override"
    /\ morphPc' = "begin"
    /\ UNCHANGED << morphInput, morphOutput, morphKernelRadius, morphOverridden,
                    morphBoundaryCondition, morphUseBoundaryCondition,
                    morphRegion, morphFaceList, morphFace, morphOSNIter,
                    morphISNIter, morphWritten >>
    /\ OthersUnchanged("morphology")

\* iSNIter.OverrideBoundaryCondition(m_BoundaryCondition)
MorphOverride ==
    /\ morphPc = "override"
    /\ morphISNIter' = [morphISNIter EXCEPT !.bc = morphBoundaryCondition]
    /\ morphPc' = "begin"
    /\ UNCHANGED << morphInput, morphOutput, morphKernelRadius, morphOverridden,
                    morphBoundaryCondition, morphUseBoundaryCondition,
                    morphRegion, morphFaceList, morphFace, morphOSNIter,
                    morphWritten >>
    /\ OthersUnchanged("morphology")

\* iSNIter.GoToBegin()
MorphGoToBegin ==
    /\ morphPc = "begin"
    /\ morphISNIter' = GoToBegin(morphISNIter)
    /\ morphPc' = "loop"
    /\ UNCHANGED << morphInput, morphOutput, morphKernelRadius, morphOverridden,
                    morphBoundaryCondition, morphUseBoundaryCondition,
                    morphRegion, morphFaceList, morphFace, morphOSNIter,
                    morphWritten >>
    /\ OthersUnchanged("morphology")

\* IsObjectPixelOnBoundary without the test of isInside.
IsObjectPixelOnBoundaryIgnoresInside(img, iNIter, useBoundaryCondition) ==
    \E i \in 0 .. (NeighborhoodSize(bKernelSize) - 1) :
        GetPixel(img, iNIter.radius, iNIter.bc, iNIter.index, i).value
            # m_ObjectValue

\* IsObjectPixelOnBoundary(iNIter): some of the 3^D neighbors is not the
\* object value; without m_UseBoundaryCondition only neighbors inside the
\* buffer count.
IsObjectPixelOnBoundary(img, iNIter, useBoundaryCondition) ==
    \E i \in 0 .. (NeighborhoodSize(bKernelSize) - 1) :
        LET tf == GetPixel(img, iNIter.radius, iNIter.bc, iNIter.index, i)
        IN  IF useBoundaryCondition
                THEN tf.value # m_ObjectValue
                ELSE tf.value # m_ObjectValue /\ tf.isInside

\* Evaluate(oSNIter, m_Kernel) of the dilating subclass with a kernel that
\* is on everywhere: the indices SetPixel is called for, those of the
\* neighborhood of oSNIter that lie inside the buffer.
EvaluateTargets(b, nit) ==
    { idx \in { NeighborIndex(nit.index, nit.radius, k) :
                    k \in 0 .. (NeighborhoodSize(nit.radius) - 1) } :
        IsInside(b, idx) }

\* One turn of while (!iSNIter.IsAtEnd()): an object pixel on the boundary
\* of the object is handed to Evaluate; ++iSNIter; ++oSNIter
MorphPixel ==
    /\ morphPc = "loop"
    /\ ~IsAtEnd(morphISNIter)
    /\ IF /\ PixelAt(morphInput, morphISNIter.index) = m_ObjectValue
          /\ IsObjectPixelOnBoundary(morphInput, morphISNIter,
                                     morphUseBoundaryCondition)
          THEN LET targets == EvaluateTargets(morphInput.region, morphOSNIter)
               IN  /\ morphOutput' = [idx \in DOMAIN morphOutput |->
                                         IF idx \in targets THEN m_ObjectValue
                                                            ELSE morphOutput[idx]]
                   /\ morphWritten' = morphWritten \cup targets
          ELSE UNCHANGED << morphOutput, morphWritten >>
    /\ morphISNIter' = Increment(morphISNIter)
    /\ morphOSNIter' = Increment(morphOSNIter)
    /\ UNCHANGED << morphInput, morphKernelRadius, morphOverridden,
                    morphBoundaryCondition, morphUseBoundaryCondition,
                    morphRegion, morphFaceList, morphFace, morphPc >>
    /\ OthersUnchanged("morphology")

\* The face is exhausted: the next face of the list, or the end of the call.
MorphNextFace ==
    /\ morphPc = "loop"
    /\ IsAtEnd(morphISNIter)
    /\ IF morphFace < Len(morphFaceList)
          THEN morphFace' = morphFace + 1 /\ morphPc' = "output"
          ELSE morphPc' = "done" /\ UNCHANGED morphFace
    /\ UNCHANGED << morphInput, morphOutput, morphKernelRadius, morphOverridden,
                    morphBoundaryCondition, morphUseBoundaryCondition,
                    morphRegion, morphFaceList, morphOSNIter, morphISNIter,
                    morphWritten >>
    /\ OthersUnchanged("morphology")

NextMorph ==
    \/ MorphComputeFaces
    \/ MorphConstructOutput
    \/ MorphConstructInput
    \/ MorphOverride
    \/ MorphGoToBegin
    \/ MorphPixel
    \/ MorphNextFace

SpecMorph == InitMorph /\ [][NextMorph]_vars

\* The call is in the pixel loop of a face, at a pixel.
MorphAtPixel == morphPc = "loop" /\ ~IsAtEnd(morphISNIter)

\* The neighbors of iSNIter whose absolute index is outside the buffer.
MorphOutsideNeighbors ==
    { k \in Neighbors(morphISNIter) :
        ~IsInside(morphInput.region,
                  NeighborIndex(morphISNIter.index, morphISNIter.radius, k)) }

\* C5: with the neighborhood iterator positioned at an index of a face and
\* carrying a Constant(c) boundary condition, GetPixel(k) is exactly c for
\* every neighbor k whose absolute index is outside the buffered region;
\* c is 0, the zero value of the pixel type, when the filter's boundary
\* condition is the default-constructed one.
C5_ConstantOutsideBuffer ==
    MorphAtPixel =>
        /\ morphISNIter.bc = morphBoundaryCondition
        /\ \A k \in MorphOutsideNeighbors :
              LET p == GetPixel(morphInput, morphISNIter.radius, morphISNIter.bc,
                                morphISNIter.index, k)
              IN  /\ ~p.isInside
                  /\ p.value = morphBoundaryCondition.constant
                  /\ ~morphOverridden => p.value = 0

\* At a pixel of a boundary face, with a neighbor outside the buffer, under
\* the user's constant.
C5_Witness ==
    /\ MorphAtPixel
    /\ morphFace > 1
    /\ morphOverridden
    /\ MorphOutsideNeighbors # {}
    /\ \A k \in MorphOutsideNeighbors :
          GetPixel(morphInput, morphISNIter.radius, morphISNIter.bc,
                   morphISNIter.index, k).value = OtherValue

\* The same under the default-constructed condition.
MorphDefaultOutside ==
    /\ MorphAtPixel
    /\ morphFace > 1
    /\ ~morphOverridden
    /\ MorphOutsideNeighbors # {}

MapEnd == DoiMaxKey + 1

\* map.begin(): the smallest key, MapEnd for an empty map.
MapBegin(keys) ==
    IF keys = {} THEN MapEnd
    ELSE CHOOSE k \in keys : \A other \in keys : k <= other

\* ++ of a map iterator that points to an element: the next larger key.
MapNext(keys, it) ==
    IF \E k \in keys : k > it THEN MapBegin({ k \in keys : k > it })
    ELSE MapEnd

\* operator++: ++m_Iterator, with no test of m_End.  On an element the result
\* is the next one; on the past-the-end iterator the standard library gives
\* no result at all, and the iterator may be left anywhere: on any element
\* or still past the end.
DoiIncrementResults(keys, it) ==
    IF it \in keys THEN { MapNext(keys, it) }
    ELSE keys \cup { MapEnd }

\* IsAtEnd(): m_Iterator == m_End
DoiIsAtEnd == doiIterator = doiEnd

\* The state a process-object iterator is constructed in: m_Begin and m_End
\* are the begin and the end of the map, m_Iterator is at m_Begin.
InitDoi ==
    /\ doiKeys \in SUBSET (1 .. DoiMaxKey)
    /\ doiBegin = MapBegin(doiKeys)
    /\ doiEnd = MapEnd
    /\ doiIterator = doiBegin
    /\ doiVisited = << >>
    /\ doiTraversals = << >>
    /\ doiPc = "begin"
    /\ OthersIdle("dataiter")

\* DoiGoToBegin leaving m_Iterator where it is.
DoiGoToBeginKeepsPosition ==
    /\ doiPc \in {"begin", "ended", "after"}
    /\ Len(doiTraversals) < DoiMaxPasses
    /\ doiVisited' = << >>
    /\ doiPc' = "loop"
    /\ UNCHANGED << doiKeys, doiIterator, doiBegin, doiEnd, doiTraversals >>
    /\ OthersUnchanged("dataiter")

\* GoToBegin(): m_Iterator = m_Begin
DoiGoToBegin ==
    /\ doiPc \in {"begin", "ended", "after"}
    /\ Len(doiTraversals) < DoiMaxPasses
    /\ doiIterator' = doiBegin
    /\ doiVisited' = << >>
    /\ doiPc' = "loop"
    /\ UNCHANGED << doiKeys, doiBegin, doiEnd, doiTraversals >>
    /\ OthersUnchanged("dataiter")

\* One turn of the client loop at an element: GetName(); ++it
DoiVisit ==
    /\ doiPc = "loop"
    /\ ~DoiIsAtEnd
    /\ doiVisited' = Append(doiVisited, doiIterator)
    /\ doiIterator' \in DoiIncrementResults(doiKeys, doiIterator)
    /\ UNCHANGED << doiKeys, doiBegin, doiEnd, doiTraversals, doiPc >>
    /\ OthersUnchanged("dataiter")

\* IsAtEnd() is true: the traversal is complete.
DoiFinish ==
    /\ doiPc = "loop"
    /\ DoiIsAtEnd
    /\ doiTraversals' = Append(doiTraversals, doiVisited)
    /\ doiPc' = "ended"
    /\ UNCHANGED << doiKeys, doiIterator, doiBegin, doiEnd, doiVisited >>
    /\ OthersUnchanged("dataiter")

\* ++it applied to the iterator that IsAtEnd.
DoiIncrementAtEnd ==
    /\ doiPc = "ended"
    /\ doiIterator' \in DoiIncrementResults(doiKeys, doiIterator)
    /\ doiPc' = "after"
    /\ UNCHANGED << doiKeys, doiBegin, doiEnd, doiVisited, doiTraversals >>
    /\ OthersUnchanged("dataiter")

NextDoi == DoiGoToBegin \/ DoiVisit \/ DoiFinish \/ DoiIncrementAtEnd

SpecDataIter == InitDoi /\ [][NextDoi]_vars

\* The keys of the map in increasing order, from key k on.
RECURSIVE KeysFrom(_, _)
KeysFrom(keys, k) ==
    IF k > DoiMaxKey THEN << >>
    ELSE (IF k \in keys THEN << k >> ELSE << >>) \o KeysFrom(keys, k + 1)

\* C11: GoToBegin on an iterator that has reached AtEnd is legal and
\* restarts iteration: the iterator is at the first element again, and every
\* later traversal visits the same finite sequence of positions as the
\* first (all the elements, in order).
C11_GoToBeginRestarts ==
    /\ (doiPc = "loop" /\ doiVisited = << >>) =>
          /\ doiIterator = doiBegin
          /\ doiKeys # {} => (doiIterator \in doiKeys /\ ~DoiIsAtEnd)
    /\ \A n \in DOMAIN doiTraversals :
          /\ doiTraversals[n] = doiTraversals[1]
          /\ doiTraversals[n] = KeysFrom(doiKeys, 1)

\* A second traversal of a map of at least two elements is complete.
C11_Witness ==
    /\ Len(doiTraversals) = 2
    /\ Len(doiTraversals[2]) >= 2
    /\ doiPc = "ended"

\* C12: once the iterator is AtEnd, operator++ does not move it back to a
\* position: IsAtEnd stays true until GoToBegin is called.
C12_StaysAtEnd == doiPc = "after" => DoiIsAtEnd

\* operator++ at the end has left the iterator on an element.
DoiWrapped == doiPc = "after" /\ doiIterator \in doiKeys


(***************************************************************************)
(* Further properties of SpecRequest.                                      *)
(***************************************************************************)
\* The call has ended, by return or by throw, on a filter with an input.
ReqEnded == reqPc = "done" /\ reqInputPresent

\* The region the filter handed to Crop.
ReqPadded == PadByRadius(reqEntry, OperatorRadius)

ReqRegionValid ==
    /\ \A a \in Axes : reqRequested.size[a] >= 0
    /\ Fits(reqRequested, reqLargest)

\* C14 as stated: at every point at which GenerateInputRequestedRegion has
\* returned or thrown, the requested region stored on the input image has
\* non-negative size on every axis and fits within the LargestPossibleRegion.
C14_ValidAfterReturnOrThrow == ReqEnded => ReqRegionValid

\* C14, amended: the stored region is valid exactly when the call has
\* returned normally; when it has thrown, the stored region is the padded
\* region, which shares no index with the LargestPossibleRegion and so does
\* not fit within it.
C14_ValidUnlessThrown ==
    ReqEnded =>
        /\ reqRaised = NoError => ReqRegionValid
        /\ reqRaised # NoError =>
              /\ reqRequested = ReqPadded
              /\ ~Fits(reqRequested, reqLargest)
              /\ ~Overlaps(reqRequested, reqLargest)

\* The gradient filter has returned a region cut down from a padded region
\* that did not fit.
C14_Witness ==
    /\ ReqEnded
    /\ reqFilter = "gradient"
    /\ reqRaised = NoError
    /\ ~Fits(ReqPadded, reqLargest)
    /\ ReqRegionValid


(***************************************************************************)
(* Further properties of SpecMorph and SpecGradient.                       *)
(***************************************************************************)
\* C15: for every face the filter processes, the overriding boundary
\* condition is on the input neighborhood iterator of that face when
\* GoToBegin is about to be called, hence before the first GetPixel on the
\* face, and it is still the one in effect at every pixel of the traversal
\* and at its end.
C15_OverrideBeforeGoToBegin ==
    morphPc \in {"begin", "loop"} =>
        /\ morphISNIter.region = morphFaceList[morphFace]
        /\ morphISNIter.bc = morphBoundaryCondition

\* Past the first pixel of a boundary face, under a condition of the user
\* that differs from the iterator's own default.
C15_Witness ==
    /\ MorphAtPixel
    /\ morphFace > 1
    /\ morphOverridden
    /\ morphISNIter.index # morphISNIter.region.index
    /\ morphISNIter.bc = Constant(OtherValue)

\* The same for the gradient filter: nbc is on bit from before GoToBegin to
\* the end of the face.
GradOverrideBeforeGoToBegin ==
    gradPc \in {"begin", "loop"} =>
        /\ gradBit.region = gradFaceList[gradFace]
        /\ gradBit.bc = ZeroFluxNeumann


\* C16: GetPixel(k, isInside) yields a value for every neighbor k; isInside
\* is false exactly when the neighbor's absolute index lies outside the
\* buffer, the value then being the one the boundary condition synthesizes,
\* and true exactly when the value was read from the buffer.  So that
\* IsObjectPixelOnBoundary, when it does not use the boundary condition,
\* decides on the neighbors inside the buffer alone.
C16_IsInsideExact ==
    MorphAtPixel =>
        /\ \A k \in Neighbors(morphISNIter) :
              LET idx == NeighborIndex(morphISNIter.index, morphISNIter.radius, k)
                  p == GetPixel(morphInput, morphISNIter.radius, morphISNIter.bc,
                                morphISNIter.index, k)
              IN  /\ p.isInside <=> IsInside(morphInput.region, idx)
                  /\ p.isInside => p.value = PixelAt(morphInput, idx)
                  /\ ~p.isInside =>
                        p.value = EvaluateBoundaryCondition(
                                      morphISNIter.bc, morphInput, idx)
        /\ ~morphUseBoundaryCondition =>
              (IsObjectPixelOnBoundary(morphInput, morphISNIter, FALSE)
                 <=> \E idx \in IndexSet(morphInput.region) :
                        /\ \A a \in Axes :
                              idx[a] - morphISNIter.index[a] \in {-1, 0, 1}
                        /\ PixelAt(morphInput, idx) # m_ObjectValue)

\* An object pixel at the edge of the buffer whose neighbors inside the
\* buffer are all object: the synthesized neighbors are skipped and the
\* pixel is not on the boundary of the object.
C16_Witness ==
    /\ MorphAtPixel
    /\ ~morphUseBoundaryCondition
    /\ MorphOutsideNeighbors # {}
    /\ MorphOutsideNeighbors # Neighbors(morphISNIter)
    /\ PixelAt(morphInput, morphISNIter.index) = m_ObjectValue
    /\ GetNumberOfPixels(morphInput.region) > 1
    /\ ~IsObjectPixelOnBoundary(morphInput, morphISNIter, FALSE)


(***************************************************************************)
(* SpecTernary: Functor::TernaryOperator applied to one triple of pixels.  *)
(***************************************************************************)
\* static_cast<TOutput>(v) for an unsigned TOutput of TernOutputValues values
StaticCastToOutput(v) == v % TernOutputValues

\* operator()(A, B, C): if (A) return static_cast<TOutput>(B);
\* return static_cast<TOutput>(C);
TernaryOperator(A, B, C) ==
    IF A # 0 THEN StaticCastToOutput(B) ELSE StaticCastToOutput(C)

InitTern ==
    /\ ternA \in 0 .. TernMaxValue
    /\ ternB \in 0 .. TernMaxValue
    /\ ternC \in 0 .. TernMaxValue
    /\ ternResult = 0
    /\ ternPc = "call"
    /\ OthersIdle("ternary")

TernApply ==
    /\ ternPc = "call"
    /\ ternResult' = TernaryOperator(ternA, ternB, ternC)
    /\ ternPc' = "done"
    /\ UNCHANGED << ternA, ternB, ternC >>
    /\ OthersUnchanged("ternary")

NextTern == TernApply

SpecTernary == InitTern /\ [][NextTern]_vars

\* C17: TernaryOperator applied to (A, B, C) returns argument 2 (B) if
\* argument 1 (A) is false, and argument 3 (C) otherwise (each as a value of
\* the output type).
C17_SecondIfFirstFalse ==
    ternPc = "done" =>
        /\ ternA = 0 => ternResult = StaticCastToOutput(ternB)
        /\ ternA # 0 => ternResult = StaticCastToOutput(ternC)

\* What the functor does: argument 2 if argument 1 is true, argument 3
\* otherwise.
TernSecondIfFirstTrue ==
    ternPc = "done" =>
        /\ ternA # 0 => ternResult = StaticCastToOutput(ternB)
        /\ ternA = 0 => ternResult = StaticCastToOutput(ternC)


(***************************************************************************)
(* SpecProgress: ProgressAccumulator with two registered internal filters, *)
(* which send StartEvent and ProgressEvent in any order; the user may      *)
(* request the abort of the mini-pipeline filter at any time.              *)
(***************************************************************************)
\* The registered internal filters, in the order of m_FilterRecord.
ProgFilters == {"first", "second"}

\* The sum of f[x] over the elements x of S.
RECURSIVE SumOver(_, _)
SumOver(S, f) ==
    IF S = {} THEN 0
    ELSE LET x == CHOOSE y \in S : TRUE
         IN  f[x] + SumOver(S \ {x}, f)

\* The state after RegisterInternalFilter(filter, weight) for each filter:
\* one record per filter, nothing accumulated, no filter started yet.
InitProg ==
    /\ progWeight \in [ProgFilters -> 1 .. ProgMaxWeight]
    /\ progFilterProgress = [f \in ProgFilters |-> 0]
    /\ progRecordAccumulated = [f \in ProgFilters |-> 0]
    /\ progAccumulated = 0
    /\ progBase = 0
    /\ progMiniProgress = 0
    /\ progMiniAbort = FALSE
    /\ progFilterAbort = [f \in ProgFilters |-> FALSE]
    /\ progEvents = 0
    /\ progLast = NoCall
    /\ OthersIdle("progress")

\* The user calls AbortGenerateDataOn on the mini-pipeline filter.
ProgRequestAbort ==
    /\ ~progMiniAbort
    /\ progMiniAbort' = TRUE
    /\ UNCHANGED << progWeight, progFilterProgress, progRecordAccumulated,
                    progAccumulated, progBase, progMiniProgress,
                    progFilterAbort, progEvents, progLast >>
    /\ OthersUnchanged("progress")

\* The filters whose progress counts in this report: those whose progress
\* differs from the progress captured at their last start.
ProgActive(progress) ==
    { f \in ProgFilters : progress[f] # progRecordAccumulated[f] }

\* ReportProgressOnProgress aborting every registered filter.
ReportProgressAbortsAll(who, progress) ==
    /\ progAccumulated' =
          progBase + SumOver(ProgActive(progress),
                             [f \in ProgFilters |-> progress[f] * progWeight[f]])
    /\ progRecordAccumulated' =
          [f \in ProgFilters |->
              IF f \in ProgActive(progress) THEN 0 ELSE progRecordAccumulated[f]]
    /\ progMiniProgress' = progAccumulated'
    /\ progFilterAbort' =
          IF progMiniAbort THEN [f \in ProgFilters |-> TRUE]
                           ELSE progFilterAbort
    /\ UNCHANGED progBase

\* ReportProgress(who, ProgressEvent), the filters' progress being
\* `progress`: accumulate from the base, pass the sum to the mini-pipeline
\* filter, and abort the reporting filter if the mini-pipeline filter is
\* being aborted.
ReportProgressOnProgress(who, progress) ==
    /\ progAccumulated' =
          progBase + SumOver(ProgActive(progress),
                             [f \in ProgFilters |-> progress[f] * progWeight[f]])
    /\ progRecordAccumulated' =
          [f \in ProgFilters |->
              IF f \in ProgActive(progress) THEN 0 ELSE progRecordAccumulated[f]]
    /\ progMiniProgress' = progAccumulated'
    /\ progFilterAbort' =
          IF progMiniAbort THEN [progFilterAbort EXCEPT ![who] = TRUE]
                           ELSE progFilterAbort
    /\ UNCHANGED progBase

\* ReportProgress(who, StartEvent): capture the progress the filter has
\* made and add it, weighted, to the base.
ReportProgressOnStart(who) ==
    /\ progRecordAccumulated' =
          [progRecordAccumulated EXCEPT ![who] = progFilterProgress[who]]
    /\ progBase' = progBase + progFilterProgress[who] * progWeight[who]
    /\ UNCHANGED << progAccumulated, progMiniProgress, progFilterAbort >>

\* Internal filter `who` sets its progress to p and sends ProgressEvent.
ProgProgressEvent ==
    /\ progEvents < ProgMaxEvents
    /\ \E who \in ProgFilters : \E p \in 0 .. ProgSteps :
          /\ progFilterProgress' = [progFilterProgress EXCEPT ![who] = p]
          /\ ReportProgressOnProgress(who, progFilterProgress')
          /\ progLast' = [who |-> who, event |-> "ProgressEvent",
                          miniAbort |-> progMiniAbort,
                          abortBefore |-> progFilterAbort]
    /\ progEvents' = progEvents + 1
    /\ UNCHANGED << progWeight, progMiniAbort >>
    /\ OthersUnchanged("progress")

\* Internal filter `who` is started (again) and sends StartEvent.
ProgStartEvent ==
    /\ progEvents < ProgMaxEvents
    /\ \E who \in ProgFilters :
          /\ ReportProgressOnStart(who)
          /\ progLast' = [who |-> who, event |-> "StartEvent",
                          miniAbort |-> progMiniAbort,
                          abortBefore |-> progFilterAbort]
    /\ progEvents' = progEvents + 1
    /\ UNCHANGED << progWeight, progFilterProgress, progMiniAbort >>
    /\ OthersUnchanged("progress")

NextProg == ProgRequestAbort \/ ProgProgressEvent \/ ProgStartEvent

SpecProgress == InitProg /\ [][NextProg]_vars

\* The sum of the registered weights, in the units of progMiniProgress.
ProgSumOfWeights == ProgSteps * SumOver(ProgFilters, progWeight)

\* C18: for any sequence of StartEvent and ProgressEvent from the registered
\* filters, the same filter being started several times included, the
\* progress passed to the mini-pipeline filter stays within
\* [0, sum of the registered weights].
C18_ProgressWithinWeights ==
    progMiniProgress >= 0 /\ progMiniProgress <= ProgSumOfWeights

\* With no filter started after it has made progress, the bound holds.
ProgWithinWeightsWithoutRestart ==
    progBase = 0 => C18_ProgressWithinWeights

\* C19: when the mini-pipeline filter's abort flag is set, a registered
\* filter that reports a ProgressEvent has its abort flag on when
\* ReportProgress returns, and no other registered filter has its abort
\* flag changed by that call; when the flag is not set, and on a StartEvent,
\* ReportProgress changes no filter's abort flag.
C19_AbortsOnlyTheReporter ==
    progLast # NoCall =>
        IF progLast.event = "ProgressEvent" /\ progLast.miniAbort
            THEN /\ progFilterAbort[progLast.who]
                 /\ \A f \in ProgFilters \ {progLast.who} :
                       progFilterAbort[f] = progLast.abortBefore[f]
            ELSE progFilterAbort = progLast.abortBefore

\* One filter has been aborted on its report, the other has not.
C19_Witness ==
    /\ progLast.event = "ProgressEvent"
    /\ progLast.miniAbort
    /\ progFilterAbort[progLast.who]
    /\ ~progLast.abortBefore[progLast.who]
    /\ \E f \in ProgFilters : ~progFilterAbort[f]


(***************************************************************************)
(* SpecLsm: one iteration of LevelSetMotionRegistrationFunction with two   *)
(* worker threads.  Each thread calls ComputeUpdate for its pixels with    *)
(* its own GlobalDataStruct, then ReleaseGlobalDataPointer; every += of    *)
(* ReleaseGlobalDataPointer is a load followed by a store.                 *)
(***************************************************************************)
LsmThreads == {"t1", "t2"}

\* The three sums, in the order ReleaseGlobalDataPointer adds them.
LsmFields == << "ssd", "n", "change" >>

\* The state after InitializeIteration (the three sums are 0) and after
\* GetGlobalDataPointer in each thread (a zeroed GlobalDataStruct).
InitLsm ==
    /\ lsmGlobalData = [t \in LsmThreads |-> [ssd |-> 0, n |-> 0, change |-> 0]]
    /\ lsmPc = [t \in LsmThreads |-> "compute"]
    /\ lsmField = [t \in LsmThreads |-> 1]
    /\ lsmLoaded = [t \in LsmThreads |-> 0]
    /\ lsmMutex = "free"
    /\ lsmShared = [ssd |-> 0, n |-> 0, change |-> 0]
    /\ lsmMetric = NoQuotient
    /\ lsmRMSChange = NoQuotient
    /\ OthersIdle("lsm")

\* ComputeUpdate(.., gd) at one pixel: the squared speed value and the
\* pixel are counted; below the thresholds the update is zero and nothing
\* is added to the squared change, otherwise the squared update is.
LsmComputeUpdate(t) ==
    /\ lsmPc[t] = "compute"
    /\ lsmGlobalData[t].n < LsmMaxPixels
    /\ \E speedValue \in 0 .. LsmMaxSpeed : \E change \in 0 .. LsmMaxChange :
          lsmGlobalData' =
              [lsmGlobalData EXCEPT ![t] =
                  [ssd |-> @.ssd + speedValue * speedValue,
                   n |-> @.n + 1,
                   change |-> @.change + change]]
    /\ UNCHANGED << lsmPc, lsmField, lsmLoaded, lsmMutex, lsmShared,
                    lsmMetric, lsmRMSChange >>
    /\ OthersUnchanged("lsm")

\* The thread has no pixel left and calls ReleaseGlobalDataPointer(gd).
LsmCallRelease(t) ==
    /\ lsmPc[t] = "compute"
    /\ lsmPc' = [lsmPc EXCEPT ![t] = "lock"]
    /\ UNCHANGED << lsmGlobalData, lsmField, lsmLoaded, lsmMutex, lsmShared,
                    lsmMetric, lsmRMSChange >>
    /\ OthersUnchanged("lsm")

\* LsmLock going on whoever holds the mutex.
LsmLockNoExclusion(t) ==
    /\ lsmPc[t] = "lock"
    /\ lsmMutex' = t
    /\ lsmPc' = [lsmPc EXCEPT ![t] = "load"]
    /\ UNCHANGED << lsmGlobalData, lsmField, lsmLoaded, lsmShared, lsmMetric,
                    lsmRMSChange >>
    /\ OthersUnchanged("lsm")

\* const std::lock_guard<std::mutex> lockGuard(m_MetricCalculationMutex)
LsmLock(t) ==
    /\ lsmPc[t] = "lock"
    /\ lsmMutex = "free"
    /\ lsmMutex' = t
    /\ lsmPc' = [lsmPc EXCEPT ![t] = "load"]
    /\ UNCHANGED << lsmGlobalData, lsmField, lsmLoaded, lsmShared, lsmMetric,
                    lsmRMSChange >>
    /\ OthersUnchanged("lsm")

\* The load of m_X += globalData->m_X
LsmLoad(t) ==
    /\ lsmPc[t] = "load"
    /\ lsmLoaded' = [lsmLoaded EXCEPT ![t] = lsmShared[LsmFields[lsmField[t]]]]
    /\ lsmPc' = [lsmPc EXCEPT ![t] = "store"]
    /\ UNCHANGED << lsmGlobalData, lsmField, lsmMutex, lsmShared, lsmMetric,
                    lsmRMSChange >>
    /\ OthersUnchanged("lsm")

\* The store of m_X += globalData->m_X; then the next sum, or the metric.
LsmStore(t) ==
    /\ lsmPc[t] = "store"
    /\ lsmShared' = [lsmShared EXCEPT ![LsmFields[lsmField[t]]] =
                        lsmLoaded[t] + lsmGlobalData[t][LsmFields[lsmField[t]]]]
    /\ IF lsmField[t] < Len(LsmFields)
          THEN /\ lsmField' = [lsmField EXCEPT ![t] = @ + 1]
               /\ lsmPc' = [lsmPc EXCEPT ![t] = "load"]
          ELSE /\ lsmPc' = [lsmPc EXCEPT ![t] = "metric"]
               /\ UNCHANGED lsmField
    /\ UNCHANGED << lsmGlobalData, lsmLoaded, lsmMutex, lsmMetric, lsmRMSChange >>
    /\ OthersUnchanged("lsm")

\* if (m_NumberOfPixelsProcessed) { m_Metric = ...; m_RMSChange = ...; }
\* then the lock guard and the GlobalDataStruct go out of scope.
LsmMetricAndUnlock(t) ==
    /\ lsmPc[t] = "metric"
    /\ IF lsmShared.n # 0
          THEN /\ lsmMetric' = [num |-> lsmShared.ssd, den |-> lsmShared.n]
               /\ lsmRMSChange' = [num |-> lsmShared.change, den |-> lsmShared.n]
          ELSE UNCHANGED << lsmMetric, lsmRMSChange >>
    /\ lsmMutex' = IF lsmMutex = t THEN "free" ELSE lsmMutex
    /\ lsmPc' = [lsmPc EXCEPT ![t] = "done"]
    /\ UNCHANGED << lsmGlobalData, lsmField, lsmLoaded, lsmShared >>
    /\ OthersUnchanged("lsm")

NextLsm ==
    \/ \E t \in LsmThreads : LsmComputeUpdate(t)
    \/ \E t \in LsmThreads : LsmCallRelease(t)
    \/ \E t \in LsmThreads : LsmLock(t)
    \/ \E t \in LsmThreads : LsmLoad(t)
    \/ \E t \in LsmThreads : LsmStore(t)
    \/ \E t \in LsmThreads : LsmMetricAndUnlock(t)

SpecLsm == InitLsm /\ [][NextLsm]_vars

\* The sum over the threads in S of their per-thread value of a field.
RECURSIVE LsmTotal(_, _)
LsmTotal(S, field) ==
    IF S = {} THEN 0
    ELSE LET t == CHOOSE u \in S : TRUE
         IN  lsmGlobalData[t][field] + LsmTotal(S \ {t}, field)

\* Every thread has returned from ReleaseGlobalDataPointer.
LsmAllReleased == \A t \in LsmThreads : lsmPc[t] = "done"

\* C20: after all concurrent calls of ReleaseGlobalDataPointer have
\* returned, the shared sum of squared differences, number of pixels
\* processed and sum of squared change each equal the sum of the per-thread
\* values accumulated since InitializeIteration, for every interleaving, and
\* the metric is that sum of squared differences divided by that pixel
\* count whenever the count is non-zero.
C20_NoLostUpdate ==
    LsmAllReleased =>
        /\ lsmShared.ssd = LsmTotal(LsmThreads, "ssd")
        /\ lsmShared.n = LsmTotal(LsmThreads, "n")
        /\ lsmShared.change = LsmTotal(LsmThreads, "change")
        /\ lsmShared.n # 0 =>
              lsmMetric = [num |-> LsmTotal(LsmThreads, "ssd"),
                           den |-> LsmTotal(LsmThreads, "n")]

\* Both threads have processed a pixel with a non-zero difference and have
\* released their data.
C20_Witness ==
    /\ LsmAllReleased
    /\ \A t \in LsmThreads : lsmGlobalData[t].n > 0 /\ lsmGlobalData[t].ssd > 0
    /\ lsmMetric.den = LsmTotal(LsmThreads, "n")

\* While nobody holds the mutex, the shared sums are those of the threads
\* that have released.
LsmSumsOfReleased ==
    lsmMutex = "free" =>
        \A i \in DOMAIN LsmFields :
            lsmShared[LsmFields[i]] =
                LsmTotal({ t \in LsmThreads : lsmPc[t] = "done" }, LsmFields[i])

\* Two threads were at the mutex at the same time.
LsmContended ==
    \E t, u \in LsmThreads : t # u /\ lsmPc[t] = "lock" /\ lsmMutex = u


\* C21: with m_UseBoundaryCondition off, IsObjectPixelOnBoundary is true if
\* and only if at least one of the 3^D neighbors that lies inside the buffer
\* has a value different from m_ObjectValue; a neighbor outside the buffer
\* never makes it true, whatever value the boundary condition synthesizes.
C21_OnBoundaryByInsideNeighborsOnly ==
    (MorphAtPixel /\ ~morphUseBoundaryCondition) =>
        LET insideDiffers ==
                \E k \in Neighbors(morphISNIter) :
                    LET idx == NeighborIndex(morphISNIter.index,
                                             morphISNIter.radius, k)
                    IN  /\ IsInside(morphInput.region, idx)
                        /\ PixelAt(morphInput, idx) # m_ObjectValue
        IN  /\ IsObjectPixelOnBoundary(morphInput, morphISNIter, FALSE)
                  <=> insideDiffers
            /\ \A c \in {0, m_ObjectValue, OtherValue} :
                  IsObjectPixelOnBoundary(
                      morphInput, [morphISNIter EXCEPT !.bc = Constant(c)], FALSE)
                  <=> insideDiffers

\* At an object pixel with a neighbor outside the buffer, for which the
\* user's boundary condition synthesizes a value that is not the object
\* value, the test is false: all neighbors inside the buffer are object.
C21_Witness ==
    /\ MorphAtPixel
    /\ ~morphUseBoundaryCondition
    /\ morphOverridden
    /\ morphISNIter.bc.constant # m_ObjectValue
    /\ MorphOutsideNeighbors # {}
    /\ PixelAt(morphInput, morphISNIter.index) = m_ObjectValue
    /\ ~IsObjectPixelOnBoundary(morphInput, morphISNIter, FALSE)
    /\ IsObjectPixelOnBoundary(morphInput, morphISNIter, TRUE)


\* ---------------------------------------------------------------------
\* PointSetToPointSetRegistrationMethod::GenerateData
\* ---------------------------------------------------------------------

RegMaxParams == 2
RegMaxValue == 1

\* FixedPointSetType::PointDimension, the size the constructor gives to both
\* parameter arrays.
PointDimension == 2

\* The components Initialize() requires, in the order it tests them.
RegComponents ==
    << "FixedPointSet", "MovingPointSet", "Metric", "Optimizer", "Transform" >>

\* What a call can throw: an itk::ExceptionObject, or an exception of a type
\* that does not derive from it (std::bad_alloc from an allocation, whatever
\* a user's metric, optimizer or observer throws).
ExceptionKinds == {"ExceptionObject", "other"}

Outcomes == ExceptionKinds \cup {"none"}

\* A handler that catches nothing.
CatchesNothing(kind) == FALSE

\* catch (const ExceptionObject &): the handler is entered for an
\* itk::ExceptionObject and for nothing else.
Catches(kind) == kind = "ExceptionObject"

\* ParametersType(n) followed by Fill(v).
Filled(n, v) == [i \in 1 .. n |-> v]

\* The parameter arrays of the model.
RegParameters ==
    UNION {[1 .. n -> 0 .. RegMaxValue] : n \in 1 .. RegMaxParams}

InitReg ==
    /\ regPresent \in SUBSET {RegComponents[i] : i \in 1 .. Len(RegComponents)}
    /\ regInitialTransformParameters \in RegParameters
    /\ regNumberOfParameters \in 1 .. RegMaxParams
    /\ regMetricInitialize \in Outcomes
    /\ regPc = "GenerateData"
    /\ regCurrentPosition = << >>
    /\ regLastTransformParameters = Filled(PointDimension, 0)
    /\ regSetParametersCalled = FALSE
    /\ regFailedIn = "none"
    /\ regThrown = "none"
    /\ regRaised = "none"
    /\ OthersIdle("registration")

\* Initialize(): what it throws, "none" when it returns.
RegInitializeOutcome ==
    IF \E i \in 1 .. Len(RegComponents) : RegComponents[i] \notin regPresent
        THEN "ExceptionObject"
    ELSE IF regMetricInitialize # "none"
        THEN regMetricInitialize
    ELSE IF Len(regInitialTransformParameters) # regNumberOfParameters
        THEN "ExceptionObject"
    ELSE "none"

\* The first try block of GenerateData: Initialize(), and the handler.
RegTryInitialize ==
    /\ regPc = "GenerateData"
    /\ LET thrown == RegInitializeOutcome
       IN  /\ regThrown' = thrown
           /\ IF thrown = "none"
                 THEN /\ regPc' = "Initialized"
                      /\ UNCHANGED << regLastTransformParameters, regFailedIn,
                                      regRaised >>
                 ELSE /\ regPc' = "raised"
                      /\ regFailedIn' = "Initialize"
                      /\ regRaised' = thrown
                      /\ regLastTransformParameters' =
                            IF Catches(thrown)
                                THEN Filled(1, 0)
                                ELSE regLastTransformParameters
    /\ UNCHANGED << regPresent, regInitialTransformParameters,
                    regNumberOfParameters, regMetricInitialize,
                    regCurrentPosition, regSetParametersCalled >>
    /\ OthersUnchanged("registration")

\* The second try block of GenerateData: m_Optimizer->StartOptimization()
\* leaves the optimizer at some position and returns or throws; then the
\* handler, or the two statements that store the result.
RegTryStartOptimization ==
    /\ regPc = "Initialized"
    /\ \E position \in [1 .. regNumberOfParameters -> 0 .. RegMaxValue],
          thrown \in Outcomes :
          /\ regCurrentPosition' = position
          /\ regThrown' = thrown
          /\ IF thrown = "none"
                THEN /\ regLastTransformParameters' = position
                     /\ regSetParametersCalled' = TRUE
                     /\ regPc' = "returned"
                     /\ UNCHANGED << regFailedIn, regRaised >>
                ELSE /\ regPc' = "raised"
                     /\ regFailedIn' = "StartOptimization"
                     /\ regRaised' = thrown
                     /\ regLastTransformParameters' =
                           IF Catches(thrown)
                               THEN position
                               ELSE regLastTransformParameters
                     /\ UNCHANGED regSetParametersCalled
    /\ UNCHANGED << regPresent, regInitialTransformParameters,
                    regNumberOfParameters, regMetricInitialize >>
    /\ OthersUnchanged("registration")

NextReg ==
    \/ RegTryInitialize
    \/ RegTryStartOptimization

SpecRegistration == InitReg /\ [][NextReg]_vars

\* What the claim says of an exception that has left GenerateData.
RegPassedOnWithLastParameters ==
    /\ regPc = "raised"
    /\ regRaised = regThrown
    /\ ~regSetParametersCalled
    /\ regFailedIn = "Initialize" => regLastTransformParameters = Filled(1, 0)
    /\ regFailedIn = "StartOptimization" =>
          regLastTransformParameters = regCurrentPosition

\* C22 (as stated): any exception raised by Initialize() or by
\* StartOptimization() is passed on to the caller without SetParameters being
\* called, and m_LastTransformParameters is then the one-element array
\* holding 0 (Initialize failed) or the optimizer's current position
\* (the optimization failed).
C22_AnyExceptionSetsLastParameters ==
    regThrown # "none" => RegPassedOnWithLastParameters

\* C22 (amended): the same for every itk::ExceptionObject; an exception of
\* another type is passed on as well, without SetParameters being called,
\* and leaves m_LastTransformParameters as it was before GenerateData.
C22_ExceptionObjectSetsLastParameters ==
    /\ regThrown = "ExceptionObject" => RegPassedOnWithLastParameters
    /\ regThrown = "other" =>
          /\ regPc = "raised"
          /\ regRaised = regThrown
          /\ ~regSetParametersCalled
          /\ regLastTransformParameters = Filled(PointDimension, 0)

\* The optimization has thrown an itk::ExceptionObject at a position that is
\* not all zeros.
C22_Witness ==
    /\ regFailedIn = "StartOptimization"
    /\ regRaised = "ExceptionObject"
    /\ regLastTransformParameters = regCurrentPosition
    /\ \E i \in 1 .. Len(regCurrentPosition) : regCurrentPosition[i] # 0


\* ---------------------------------------------------------------------
\* PowellOptimizerv4::StartOptimization
\* ---------------------------------------------------------------------

PowMaxIteration == 2
PowMaxDimension == 2
PowMaxValue == 3
PowMaxTolerance == 1

Abs(x) == IF x < 0 THEN 0 - x ELSE x

\* The values of the metric, and what an evaluation can do: return one of
\* them or throw (GetLineValue with m_CatchGetValueException off).
PowValues == 0 .. PowMaxValue

PowEvaluations ==
    {[throws |-> FALSE, val |-> v] : v \in PowValues}
        \cup {[throws |-> TRUE, val |-> 0]}

\* InvokeEvent(e), as the summary of the events invoked so far.
InvokeEvent(events, e) ==
    [start     |-> events.start + (IF e = "StartEvent" THEN 1 ELSE 0),
     iteration |-> events.iteration + (IF e = "IterationEvent" THEN 1 ELSE 0),
     end       |-> events.end + (IF e = "EndEvent" THEN 1 ELSE 0),
     afterEnd  |-> events.afterEnd + (IF events.end > 0 THEN 1 ELSE 0),
     last      |-> e]

\* LineBracket, BracketedLineOptimize and SetCurrentLinePoint each end with
\* SetCurrentLinePoint, whose Modified() invokes a ModifiedEvent.
LineMinimizationEvents(events) ==
    InvokeEvent(InvokeEvent(InvokeEvent(events, "ModifiedEvent"),
                            "ModifiedEvent"), "ModifiedEvent")

\* What a line minimization that starts at the value fx can do: LineBracket
\* leaves f2 <= f1 and BracketedLineOptimize moves only to values that are
\* not larger, so it ends at a value of at most fx, or the metric throws.
LineMinimizations(fx) ==
    {e \in PowEvaluations : e.throws \/ e.val <= fx}

\* The test of the value tolerance.
WithinValueTolerance(fp, fx) ==
    2 * Abs(fp - fx) <= powValueTolerance * (Abs(fp) + Abs(fx))

InitPow ==
    /\ powMetricIsNull \in BOOLEAN
    /\ powMaximumIteration \in 0 .. PowMaxIteration
    /\ powValueTolerance \in 0 .. PowMaxTolerance
    /\ powSpaceDimension \in 1 .. PowMaxDimension
    /\ powPc = "StartOptimization"
    /\ powCurrentIteration = 0
    /\ powI = 0
    /\ powFx = 0
    /\ powFp = 0
    /\ powDel = 0
    /\ powIterationsPerformed = 0
    /\ powStopCondition = "none"
    /\ powEvents = NoEvents
    /\ OthersIdle("powell")

\* StartOptimization up to the outer loop: return at once without a metric;
\* otherwise StartEvent and the first evaluation of the metric.
PowStart ==
    /\ powPc = "StartOptimization"
    /\ IF powMetricIsNull
          THEN /\ powPc' = "returned"
               /\ UNCHANGED << powEvents, powFx, powCurrentIteration >>
          ELSE /\ powEvents' = InvokeEvent(powEvents, "StartEvent")
               /\ \E val \in PowEvaluations :
                     IF val.throws
                         THEN /\ powPc' = "raised"
                              /\ UNCHANGED << powFx, powCurrentIteration >>
                         ELSE /\ powFx' = val.val
                              /\ powCurrentIteration' = 0
                              /\ powPc' = "for"
    /\ UNCHANGED << powMetricIsNull, powMaximumIteration, powValueTolerance,
                    powSpaceDimension, powI, powFp, powDel,
                    powIterationsPerformed, powStopCondition >>
    /\ OthersUnchanged("powell")

\* The test of the outer loop: enter the body, or leave the loop with the
\* stop condition of the maximum number of iterations and EndEvent.
PowFor ==
    /\ powPc = "for"
    /\ IF powCurrentIteration <= powMaximumIteration
          THEN /\ powFp' = powFx
               /\ powDel' = 0
               /\ powI' = 0
               /\ powIterationsPerformed' = powIterationsPerformed + 1
               /\ powPc' = "directions"
               /\ UNCHANGED << powStopCondition, powEvents >>
          ELSE /\ powStopCondition' = "maximum"
               /\ powEvents' = InvokeEvent(powEvents, "EndEvent")
               /\ powPc' = "returned"
               /\ UNCHANGED << powFp, powDel, powI, powIterationsPerformed >>
    /\ UNCHANGED << powMetricIsNull, powMaximumIteration, powValueTolerance,
                    powSpaceDimension, powCurrentIteration, powFx >>
    /\ OthersUnchanged("powell")

\* One pass of the loop over the directions: a line minimization, which
\* leaves fx at some value or passes on what the metric throws.
PowDirection ==
    /\ powPc = "directions"
    /\ powI < powSpaceDimension
    /\ \E val \in LineMinimizations(powFx) :
          IF val.throws
              THEN /\ powPc' = "raised"
                   /\ UNCHANGED << powFx, powDel, powI, powEvents >>
              ELSE /\ powFx' = val.val
                   /\ powDel' = IF Abs(powFx - val.val) > powDel
                                    THEN Abs(powFx - val.val)
                                    ELSE powDel
                   /\ powI' = powI + 1
                   /\ powEvents' = LineMinimizationEvents(powEvents)
                   /\ UNCHANGED powPc
    /\ UNCHANGED << powMetricIsNull, powMaximumIteration, powValueTolerance,
                    powSpaceDimension, powCurrentIteration, powFp,
                    powIterationsPerformed, powStopCondition >>
    /\ OthersUnchanged("powell")

\* The test of the value tolerance with EndEvent but without the return.
PowToleranceNoReturn ==
    /\ powPc = "directions"
    /\ powI = powSpaceDimension
    /\ IF WithinValueTolerance(powFp, powFx)
          THEN /\ powStopCondition' = "tolerance"
               /\ powEvents' = InvokeEvent(powEvents, "EndEvent")
          ELSE UNCHANGED << powStopCondition, powEvents >>
    /\ powPc' = "extrapolate"
    /\ UNCHANGED << powMetricIsNull, powMaximumIteration, powValueTolerance,
                    powSpaceDimension, powCurrentIteration, powI, powFx,
                    powFp, powDel, powIterationsPerformed >>
    /\ OthersUnchanged("powell")

\* After the directions: within the value tolerance the optimization stops
\* with EndEvent and returns.
PowTolerance ==
    /\ powPc = "directions"
    /\ powI = powSpaceDimension
    /\ IF WithinValueTolerance(powFp, powFx)
          THEN /\ powStopCondition' = "tolerance"
               /\ powEvents' = InvokeEvent(powEvents, "EndEvent")
               /\ powPc' = "returned"
          ELSE /\ powPc' = "extrapolate"
               /\ UNCHANGED << powStopCondition, powEvents >>
    /\ UNCHANGED << powMetricIsNull, powMaximumIteration, powValueTolerance,
                    powSpaceDimension, powCurrentIteration, powI, powFx,
                    powFp, powDel, powIterationsPerformed >>
    /\ OthersUnchanged("powell")

\* t of the extrapolation test.
PowT(fp, fx, fptt, del) ==
    2 * (fp - 2 * fx + fptt) * (fp - fx - del) * (fp - fx - del)
        - del * (fp - fptt) * (fp - fptt)

\* The rest of the body: the extrapolated point, a line minimization along
\* the new direction when it pays, IterationEvent and the increment.
PowExtrapolate ==
    /\ powPc = "extrapolate"
    /\ \E fptt \in PowEvaluations, val \in LineMinimizations(powFx) :
          IF fptt.throws
              THEN /\ powPc' = "raised"
                   /\ UNCHANGED << powFx, powEvents, powCurrentIteration >>
          ELSE IF fptt.val < powFp /\ PowT(powFp, powFx, fptt.val, powDel) < 0
              THEN IF val.throws
                      THEN /\ powPc' = "raised"
                           /\ UNCHANGED << powFx, powEvents,
                                           powCurrentIteration >>
                      ELSE /\ powFx' = val.val
                           /\ powEvents' =
                                 InvokeEvent(LineMinimizationEvents(powEvents),
                                             "IterationEvent")
                           /\ powCurrentIteration' = powCurrentIteration + 1
                           /\ powPc' = "for"
              ELSE /\ powEvents' = InvokeEvent(powEvents, "IterationEvent")
                   /\ powCurrentIteration' = powCurrentIteration + 1
                   /\ powPc' = "for"
                   /\ UNCHANGED powFx
    /\ UNCHANGED << powMetricIsNull, powMaximumIteration, powValueTolerance,
                    powSpaceDimension, powI, powFp, powDel,
                    powIterationsPerformed, powStopCondition >>
    /\ OthersUnchanged("powell")

NextPow ==
    \/ PowStart
    \/ PowFor
    \/ PowDirection
    \/ PowTolerance
    \/ PowExtrapolate

SpecPowell == InitPow /\ [][NextPow]_vars

\* C23: an execution of StartOptimization that has invoked StartEvent and
\* returned normally has invoked EndEvent exactly once, after the last
\* IterationEvent, and no event after EndEvent.
C23_EndEventOnceAndLast ==
    (powPc = "returned" /\ powEvents.start > 0) =>
        /\ powEvents.end = 1
        /\ powEvents.afterEnd = 0
        /\ powEvents.last = "EndEvent"

\* StartOptimization has returned through the value tolerance after at
\* least one IterationEvent.
C23_Witness ==
    /\ powPc = "returned"
    /\ powStopCondition = "tolerance"
    /\ powEvents.start = 1
    /\ powEvents.iteration > 0
    /\ powEvents.last = "EndEvent"

\* The outer loop runs for m_CurrentIteration = 0 .. m_MaximumIteration.
PowMaximumMeansOneMore ==
    powStopCondition = "maximum" =>
        /\ powIterationsPerformed = powMaximumIteration + 1
        /\ powCurrentIteration = powMaximumIteration + 1

\* C24: when StartOptimization stops with "Maximum number of iterations
\* exceeded. Number of iterations is <m_MaximumIteration>", it has performed
\* exactly m_MaximumIteration outer iterations.
C24_PerformsMaximumIteration ==
    powStopCondition = "maximum" =>
        powIterationsPerformed = powMaximumIteration


\* ---------------------------------------------------------------------
\* PowellOptimizerv4::LineBracket
\* ---------------------------------------------------------------------

\* The doubles of the model: abscissae are the integers of magnitude up to
\* BrInfinity, which stands for the infinity a double overflows to; the
\* caller's x1 and x2 are finite, of magnitude up to BrMaxStart; the values of
\* the metric are 0 .. BrMaxValue.
BrInfinity == 4
BrMaxStart == 1
BrMaxValue == 3

BrValues == 0 .. BrMaxValue

\* A result that overflows becomes the infinity of its sign.
Saturate(x) ==
    IF x > BrInfinity THEN BrInfinity
    ELSE IF x < 0 - BrInfinity THEN 0 - BrInfinity
    ELSE x

\* goldenRatio * d, rounded to the nearest representable number.
GoldenTimes(d) ==
    IF d >= 0
        THEN (1618 * d + 500) \div 1000
        ELSE 0 - ((1618 * (0 - d) + 500) \div 1000)

\* *x1 + goldenRatio * (*x2 - *x1)
GoldenExtrapolate(x1, x2) == Saturate(x1 + GoldenTimes(Saturate(x2 - x1)))

\* m_Metric->GetValue() at the point x of the line: what it did when it was
\* called there before, else any value, or an exception.
MetricGetValue(metric, x) ==
    IF \E r \in metric : r.x = x
        THEN {r \in metric : r.x = x}
        ELSE {[x |-> x, throws |-> FALSE, val |-> v] : v \in BrValues}
                 \cup {[x |-> x, throws |-> TRUE, val |-> 0]}

\* GetLineValue rethrows what the metric throws unless
\* m_CatchGetValueException is set.
Rethrows(r) == r.throws /\ ~brCatchGetValueException

\* The value GetLineValue returns.
GetLineValue(r) ==
    IF r.throws THEN brMetricWorstPossibleValue ELSE r.val

\* A swap that is never made.
SwapNever(f1, f2) == FALSE

\* if (*f2 >= *f1): swap x1 with x2 and f1 with f2.
SwapNeeded(f1, f2) == f2 >= f1

\* A loop that goes on while f3 is not above f2.
ContinuesOnEqual(f2, f3) == f3 <= f2

\* while (*f3 < *f2)
Continues(f2, f3) == f3 < f2

InitBr ==
    /\ brX1 \in (0 - BrMaxStart) .. BrMaxStart
    /\ brX2 \in (0 - BrMaxStart) .. BrMaxStart
    /\ brStart = << brX1, brX2 >>
    /\ brF1 \in BrValues
    /\ brMetric = {[x |-> brX1, throws |-> FALSE, val |-> brF1]}
    /\ brX3 = 0
    /\ brF2 = 0
    /\ brF3 = 0
    /\ brCatchGetValueException \in BOOLEAN
    /\ brMetricWorstPossibleValue \in
          IF brCatchGetValueException THEN {0, BrMaxValue} ELSE {0}
    /\ brLineOrigin = 1
    /\ brLineDirection \in {0 - 1, 1}
    /\ brCurrentPosition = brLineOrigin
    /\ brCurrentCost = brF1
    /\ brPc = "LineBracket"
    /\ OthersIdle("bracket")

\* LineBracket up to the loop: f2 at x2, the swap, x3 and f3.
BrExtrapolate ==
    /\ brPc = "LineBracket"
    /\ \E r2 \in MetricGetValue(brMetric, brX2) :
          IF Rethrows(r2)
              THEN /\ brPc' = "raised"
                   /\ brMetric' = brMetric \cup {r2}
                   /\ UNCHANGED << brX1, brX2, brX3, brF1, brF2, brF3 >>
              ELSE LET f2   == GetLineValue(r2)
                       swap == SwapNeeded(brF1, f2)
                       x1   == IF swap THEN brX2 ELSE brX1
                       x2   == IF swap THEN brX1 ELSE brX2
                       x3   == GoldenExtrapolate(x1, x2)
                   IN  /\ brX1' = x1
                       /\ brX2' = x2
                       /\ brF1' = IF swap THEN f2 ELSE brF1
                       /\ brF2' = IF swap THEN brF1 ELSE f2
                       /\ brX3' = x3
                       /\ \E r3 \in MetricGetValue(brMetric \cup {r2}, x3) :
                             /\ brMetric' = brMetric \cup {r2, r3}
                             /\ IF Rethrows(r3)
                                   THEN /\ brPc' = "raised"
                                        /\ UNCHANGED brF3
                                   ELSE /\ brPc' = "while"
                                        /\ brF3' = GetLineValue(r3)
    /\ UNCHANGED << brStart, brCatchGetValueException,
                    brMetricWorstPossibleValue, brLineOrigin, brLineDirection,
                    brCurrentPosition, brCurrentCost >>
    /\ OthersUnchanged("bracket")

\* One pass of the loop: x2 and f2 move to x3 and f3, and a new x3 and f3.
BrWhile ==
    /\ brPc = "while"
    /\ Continues(brF2, brF3)
    /\ brX2' = brX3
    /\ brF2' = brF3
    /\ LET x3 == GoldenExtrapolate(brX1, brX3)
       IN  /\ brX3' = x3
           /\ \E r3 \in MetricGetValue(brMetric, x3) :
                 /\ brMetric' = brMetric \cup {r3}
                 /\ IF Rethrows(r3)
                       THEN /\ brPc' = "raised"
                            /\ UNCHANGED brF3
                       ELSE /\ brPc' = "while"
                            /\ brF3' = GetLineValue(r3)
    /\ UNCHANGED << brStart, brX1, brF1, brCatchGetValueException,
                    brMetricWorstPossibleValue, brLineOrigin, brLineDirection,
                    brCurrentPosition, brCurrentCost >>
    /\ OthersUnchanged("bracket")

\* m_LineOrigin + x * m_LineDirection
LinePoint(x) == brLineOrigin + x * brLineDirection

\* The end of the loop: SetCurrentLinePoint(*x2, *f2), and the return.
BrSetCurrentLinePoint ==
    /\ brPc = "while"
    /\ ~Continues(brF2, brF3)
    /\ brCurrentPosition' = LinePoint(brX2)
    /\ brCurrentCost' = brF2
    /\ brPc' = "returned"
    /\ UNCHANGED << brStart, brX1, brX2, brX3, brF1, brF2, brF3, brMetric,
                    brCatchGetValueException, brMetricWorstPossibleValue,
                    brLineOrigin, brLineDirection >>
    /\ OthersUnchanged("bracket")

NextBr ==
    \/ BrExtrapolate
    \/ BrWhile
    \/ BrSetCurrentLinePoint

\* LineBracket is sequential code: while it has a next statement, it runs.
SpecLineBracket == InitBr /\ [][NextBr]_vars /\ WF_vars(NextBr)

\* C25 (as stated): every call to LineBracket returns, after finitely many
\* evaluations of the metric, whatever the cost function and the pair
\* (x1, x2).
C25_AlwaysReturns == <>(brPc = "returned")

\* C25 (amended): every call to LineBracket ends after finitely many
\* evaluations of the metric: it returns, or it passes on an exception of the
\* metric when m_CatchGetValueException is off.
C25_AlwaysEnds == <>(brPc \in {"returned", "raised"})

\* The loop has run until x2 overflowed, and LineBracket has returned.
C25_Witness ==
    /\ brPc = "returned"
    /\ brX2 \in {BrInfinity, 0 - BrInfinity}
    /\ brX3 = brX2

\* x2 lies between x1 and x3.
Between(x1, x2, x3) ==
    \/ x1 <= x2 /\ x2 <= x3
    \/ x3 <= x2 /\ x2 <= x1

\* C26: on return from LineBracket, f2 is the value of the metric at x2,
\* f2 <= f1 and f2 <= f3, x2 lies between x1 and x3, and the current position
\* and the current cost are the point x2 of the line and f2.
C26_BracketsAMinimum ==
    brPc = "returned" =>
        /\ \E r \in brMetric : r.x = brX2 /\ GetLineValue(r) = brF2
        /\ brF2 <= brF1
        /\ brF2 <= brF3
        /\ Between(brX1, brX2, brX3)
        /\ brCurrentPosition = LinePoint(brX2)
        /\ brCurrentCost = brF2

\* LineBracket has returned after a swap and at least one pass of the loop,
\* with three distinct points and f2 strictly below f1 and f3.
C26_Witness ==
    /\ brPc = "returned"
    /\ brX1 = brStart[2]
    /\ brX2 # brStart[1]
    /\ brX1 # brX2
    /\ brX2 # brX3
    /\ brF2 < brF1
    /\ brF2 < brF3


\* ---------------------------------------------------------------------
\* RegionBasedLevelSetFunction::UpdateSharedData
\* ---------------------------------------------------------------------

RlsMaxPixels == 2
RlsMaxPhi == 1
RlsMaxCalls == 4

RlsPixels == 1 .. RlsMaxPixels

\* The level set images of the model.
RlsImages == [RlsPixels -> (0 - RlsMaxPhi) .. RlsMaxPhi]

\* m_DomainFunction->Evaluate(x): the Heaviside step.
Heaviside(x) == IF x >= 0 THEN 1 ELSE 0

\* ComputeHImage(): the Heaviside function of minus the level set function,
\* pixel by pixel over the requested region.
ComputeHImage(contourImage) ==
    [p \in RlsPixels |-> Heaviside(0 - contourImage[p])]

RECURSIVE RlsSum(_, _)
RlsSum(image, n) == IF n = 0 THEN 0 ELSE image[n] + RlsSum(image, n - 1)

\* ComputeParameters() of the subclass: the region's parameters, from the
\* Heaviside image as it is when it runs.
ComputeParameters(hImage) == RlsSum(hImage, RlsMaxPixels)

\* A test of m_UpdateC that always asks for the parameters.
NeedsParametersAlways(updateC) == TRUE

\* if (!this->m_UpdateC)
NeedsParameters(updateC) == ~updateC

\* The constructor does not set m_UpdateC.
InitRls ==
    /\ rlsInitialImage \in RlsImages
    /\ rlsHImage = [p \in RlsPixels |-> 0]
    /\ rlsUpdateC \in BOOLEAN
    /\ rlsInitialUpdateC = rlsUpdateC
    /\ rlsParameters = 0
    /\ rlsSharedParameters = 0
    /\ rlsCalls = 0
    /\ rlsLastCall = "none"
    /\ rlsPrevCall = "none"
    /\ rlsRan = {}
    /\ rlsParametersSinceForced = 0
    /\ OthersIdle("shareddata")

\* UpdateSharedData(forceUpdate)
UpdateSharedData ==
    /\ rlsCalls < RlsMaxCalls
    /\ rlsCalls' = rlsCalls + 1
    /\ rlsPrevCall' = rlsLastCall
    /\ \E forceUpdate \in BOOLEAN :
          IF forceUpdate
              THEN /\ rlsHImage' = ComputeHImage(rlsInitialImage)
                   /\ rlsUpdateC' = FALSE
                   /\ rlsLastCall' = "forced"
                   /\ rlsRan' = {"ComputeHImage"}
                   /\ rlsParametersSinceForced' = 0
                   /\ UNCHANGED << rlsParameters, rlsSharedParameters >>
              ELSE LET compute == NeedsParameters(rlsUpdateC)
                       parameters == IF compute
                                         THEN ComputeParameters(rlsHImage)
                                         ELSE rlsParameters
                   IN  /\ rlsParameters' = parameters
                       /\ rlsUpdateC' = IF compute THEN TRUE ELSE rlsUpdateC
                       /\ rlsSharedParameters' = parameters
                       /\ rlsLastCall' = "unforced"
                       /\ rlsRan' = IF compute
                                       THEN {"ComputeParameters",
                                             "UpdateSharedDataParameters"}
                                       ELSE {"UpdateSharedDataParameters"}
                       /\ rlsParametersSinceForced' =
                             rlsParametersSinceForced
                                 + (IF compute THEN 1 ELSE 0)
                       /\ UNCHANGED rlsHImage
    /\ UNCHANGED << rlsInitialImage, rlsInitialUpdateC >>
    /\ OthersUnchanged("shareddata")

\* Between two calls the solver's iteration changes the level set function.
RlsEvolve ==
    /\ rlsCalls < RlsMaxCalls
    /\ rlsLastCall = "unforced"
    /\ \E image \in RlsImages :
          /\ image # rlsInitialImage
          /\ rlsInitialImage' = image
    /\ UNCHANGED << rlsHImage, rlsUpdateC, rlsInitialUpdateC, rlsParameters,
                    rlsSharedParameters, rlsCalls, rlsLastCall, rlsPrevCall,
                    rlsRan, rlsParametersSinceForced >>
    /\ OthersUnchanged("shareddata")

NextRls ==
    \/ UpdateSharedData
    \/ RlsEvolve

SpecSharedData == InitRls /\ [][NextRls]_vars

\* UpdateSharedDataParameters runs on every UpdateSharedData(false) and on no
\* UpdateSharedData(true), and ComputeParameters at most once per forced
\* update.
RlsEveryUnforcedCallUpdates ==
    /\ "UpdateSharedDataParameters" \in rlsRan <=> rlsLastCall = "unforced"
    /\ "ComputeHImage" \in rlsRan <=> rlsLastCall = "forced"
    /\ rlsParametersSinceForced <= 1

====
